---- MODULE Spec2Model ----
(***************************************************************************)
(* Floor control of the Open Floor Protocol floor manager                  *)
(* (src/src/floor_manager/floor_control.py).                               *)
(*                                                                         *)
(* FloorControl keeps three dictionaries keyed by conversation id: the     *)
(* floor holders, the pending floor requests and the conversation          *)
(* metadata.  A Python dict is a function whose DOMAIN is the set of keys  *)
(* present.  Every coroutine of FloorControl awaits only other coroutines  *)
(* of FloorControl, none of which suspends, so each call is one step.      *)
(*                                                                         *)
(* Time is what datetime.now(UTC) returns: a reading that never decreases  *)
(* and that two calls made in quick succession may share.                  *)
(*                                                                         *)
(* Envelopes (src/src/envelope_router/router.py and                        *)
(* src/src/floor_manager/manager.py): a routing table from speakerUri to   *)
(* handler, route_envelope, and FloorManager.process_envelope, which       *)
(* applies floor events to the manager's own FloorControl (its convener)   *)
(* and then routes.  A handler is known by what it does when awaited.      *)
(* One envelope call runs at a time.                                       *)
(***************************************************************************)
EXTENDS Integers, Sequences, FiniteSets, TLC

\* ------------------------------------------------------------------ bounds
MaxTime == 3          \* the clock stops advancing here
MaxRequests == 3      \* request_floor calls in one behaviour
MaxEnvelopeRequests == 2  \* requestFloor events processed in one behaviour
MaxInvites == 3        \* invite_participant calls in one behaviour
MaxTurns == 3          \* grant_floor_to_next calls in one behaviour
MaxDirectoryCalls == 4 \* store and delete calls in one behaviour
MaxBroadcasts == 2    \* broadcast_floor_update calls in one behaviour
MaxTasks == 3         \* FloorControl calls started as concurrent tasks
MaxTableWrites == 4   \* register_route and unregister_route calls made on
                      \* the table whose key order is kept

\* FLOOR_MAX_HOLD_TIME, in clock ticks (the setting is read from the
\* environment; the model runs with a hold time of one tick)
FLOOR_MAX_HOLD_TIME == 1

\* FLOOR_QUEUE_MAX_SIZE (the setting is read from the environment; the model
\* runs with a cap of one queued request)
FLOOR_QUEUE_MAX_SIZE == 1

ConversationIds == {"c1"}
SpeakerUris == {"s:a", "s:b", "s:c"}
Priorities == {0, 1}

None == "None"
EmptyDict == <<>>

\* no call has returned at the current instant
NoCall == [op |-> "none", conversation_id |-> None, speakerUri |-> None,
           result |-> None]

VARIABLES
    floor_holders,          \* self._floor_holders
    floor_requests,         \* self._floor_requests
    conversation_metadata,  \* self._conversation_metadata
    now,                    \* the value datetime.now(UTC) returns
    arrivals,               \* number of request_floor calls made so far
    ret,                    \* the call that has just returned, with its result;
                            \* NoCall once the clock has moved on
    convener,               \* FloorManager.convener: the FloorControl built by
                            \* FloorManager.__init__, as a FloorState
    routes,                 \* self._routes: speakerUri -> handler
    last,                   \* the router or manager call that has just returned
    walk,                   \* a broadcast of route_envelope under way, and the
                            \* order of the keys of self._routes
    tasks,                  \* the FloorControl calls started as tasks, each
                            \* with its progress
    hub,                    \* api/websocket.py: active_websockets,
                            \* active_sse_queues and the streams
    manifests,              \* ManifestStorage._manifests: speaker_uri -> Manifest
    published,              \* the stores of publish_manifests and the deletes
                            \* made on the storage so far
    found,                  \* the ManifestStorage.search call that has just
                            \* returned
    parsed,                 \* the from_dict or create_envelope call that has
                            \* just returned
    orchestrator            \* ConvenerOrchestrator: _participants,
                            \* _turn_order, _current_turn_index

vars == <<floor_holders, floor_requests, conversation_metadata, now, arrivals,
          ret, convener, routes, last, walk, tasks, hub, manifests, published,
          found, parsed, orchestrator>>

\* ----------------------------------------------------------- dict helpers
Has(d, k) == k \in DOMAIN d

Put(d, k, v) == [x \in (DOMAIN d) \cup {k} |-> IF x = k THEN v ELSE d[x]]

Del_all(d, k) == <<>>

Del(d, k) == [x \in (DOMAIN d) \ {k} |-> d[x]]

Range(s) == {s[i] : i \in DOMAIN s}

\* the three dictionaries as one value, threaded through the private helpers
FloorState(h, q, m) == [holders |-> h, requests |-> q, metadata |-> m]

\* --------------------------------------------------------------- the sort
\* key=lambda x: (-x["priority"], x["timestamp"]), compared as tuples
KeyLess_ascending(a, b) ==
    \/ a.priority < b.priority
    \/ a.priority = b.priority /\ a.timestamp < b.timestamp

KeyLess(a, b) ==
    \/ (0 - a.priority) < (0 - b.priority)
    \/ a.priority = b.priority /\ a.timestamp < b.timestamp

\* x goes after every element whose key is not greater than its own
InsertStable(s, x) ==
    LET before == {i \in 1..Len(s) : ~KeyLess(x, s[i])}
        k == IF before = {} THEN 0
             ELSE CHOOSE i \in before : \A j \in before : j <= i
    IN  \* a sorted prefix: every element up to k is not greater than x
        SubSeq(s, 1, k) \o <<x>> \o SubSeq(s, k + 1, Len(s))

RECURSIVE SortRequests(_)
\* list.sort(key=...): the stable sort of the whole list
SortRequests(s) ==
    IF s = <<>> THEN <<>>
    ELSE InsertStable(SortRequests(SubSeq(s, 1, Len(s) - 1)), s[Len(s)])

\* self._floor_requests[conversation_id].append(request), then .sort(key=...)
Enqueue_prepend(q, request) == SortRequests(<<request>> \o q)

Enqueue_dedupe(q, request) ==
    IF \E i \in 1..Len(q) : q[i].speakerUri = request.speakerUri
    THEN q
    ELSE SortRequests(Append(q, request))

Enqueue(q, request) == SortRequests(Append(q, request))

\* self._floor_requests[conversation_id].pop(0): the item and what is left
Pop_last(q) == [item |-> q[Len(q)], rest |-> SubSeq(q, 1, Len(q) - 1)]

Pop0_and_next(q) ==
    [item |-> Head(q), rest |-> IF Len(q) >= 2 THEN Tail(Tail(q)) ELSE <<>>]

Pop0_keeps(q) == [item |-> Head(q), rest |-> q]

Pop0(q) == [item |-> Head(q), rest |-> Tail(q)]

\* ------------------------------------------------------------- conditions
\* conversation_id not in self._floor_holders (request_floor)
FloorAvailable_wrong_dict(holders, requests, conversation_id) ==
    ~Has(requests, conversation_id)

FloorAvailable(holders, requests, conversation_id) == ~Has(holders, conversation_id)

\* holder["speakerUri"] != speakerUri is the refusal (release_floor)
IsHolder_any(holder, speakerUri) == TRUE

IsHolder(holder, speakerUri) == holder.speakerUri = speakerUri

\* datetime.now(UTC) - holder["granted_at"] > timedelta(seconds=max_hold_time)
Expired_inverted(holder, t) == t - holder.granted_at < FLOOR_MAX_HOLD_TIME

Expired_never(holder, t) == FALSE

Expired(holder, t) == t - holder.granted_at > FLOOR_MAX_HOLD_TIME

\* -------------------------------------------------------- private helpers
\* FloorControl._grant_floor
grant_floor_no_metadata(st, conversation_id, speakerUri) ==
    [st EXCEPT !.holders = Put(st.holders, conversation_id,
                               [speakerUri |-> speakerUri, granted_at |-> now])]

grant_floor_at_zero(st, conversation_id, speakerUri) ==
    LET m1 == IF Has(st.metadata, conversation_id) THEN st.metadata
              ELSE Put(st.metadata, conversation_id,
                       [k \in {"assignedFloorRoles"} |-> EmptyDict])
    IN  [st EXCEPT
            !.holders = Put(st.holders, conversation_id,
                            [speakerUri |-> speakerUri, granted_at |-> 0]),
            !.metadata = Put(m1, conversation_id,
                             Put(m1[conversation_id], "floorGranted", <<speakerUri>>))]

grant_floor(st, conversation_id, speakerUri) ==
    LET m1 == IF Has(st.metadata, conversation_id) THEN st.metadata
              ELSE Put(st.metadata, conversation_id,
                       [k \in {"assignedFloorRoles"} |-> EmptyDict])
    IN  [st EXCEPT
            !.holders = Put(st.holders, conversation_id,
                            [speakerUri |-> speakerUri, granted_at |-> now]),
            !.metadata = Put(m1, conversation_id,
                             Put(m1[conversation_id], "floorGranted", <<speakerUri>>))]

\* FloorControl._process_queue
process_queue_noop(st, conversation_id) == st

process_queue(st, conversation_id) ==
    IF ~Has(st.requests, conversation_id) \/ st.requests[conversation_id] = <<>>
    THEN st
    ELSE LET pop == Pop0(st.requests[conversation_id])
             next_request == pop.item
             popped == [st EXCEPT !.requests[conversation_id] = pop.rest]
             granted == grant_floor(popped, conversation_id, next_request.speakerUri)
         IN  IF granted.requests[conversation_id] = <<>>
             THEN [granted EXCEPT !.requests = Del(@, conversation_id)]
             ELSE granted

\* FloorControl._revoke_floor
revoke_floor(st, conversation_id) ==
    IF Has(st.holders, conversation_id)
    THEN LET m1 == IF Has(st.metadata, conversation_id)
                   THEN [st.metadata EXCEPT ![conversation_id] = Del(@, "floorGranted")]
                   ELSE st.metadata
         IN  process_queue([st EXCEPT !.holders = Del(@, conversation_id),
                                      !.metadata = m1],
                           conversation_id)
    ELSE st

\* FloorControl.request_floor on the dictionaries st, as the n-th request
\* made: the dictionaries it leaves and the value it returns
FloorControl_request_floor(st, conversation_id, speakerUri, priority, n) ==
    LET m1 == IF Has(st.metadata, conversation_id)
              THEN st.metadata
              ELSE Put(st.metadata, conversation_id,
                       [k \in {"assignedFloorRoles"} |-> EmptyDict])
        st1 == FloorState(st.holders, st.requests, m1)
    IN  IF FloorAvailable(st.holders, st.requests, conversation_id)
        THEN [st |-> grant_floor(st1, conversation_id, speakerUri),
              result |-> TRUE]
        ELSE LET q0 == IF Has(st.requests, conversation_id)
                       THEN st.requests[conversation_id] ELSE <<>>
                 request == [speakerUri |-> speakerUri, priority |-> priority,
                             timestamp |-> now, seq |-> n]
             IN  [st |-> [st1 EXCEPT !.requests =
                            Put(@, conversation_id, Enqueue(q0, request))],
                  result |-> FALSE]

\* FloorControl.release_floor on the dictionaries st
FloorControl_release_floor(st, conversation_id, speakerUri) ==
    IF ~Has(st.holders, conversation_id)
    THEN [st |-> st, result |-> FALSE]
    ELSE IF ~IsHolder(st.holders[conversation_id], speakerUri)
    THEN [st |-> st, result |-> FALSE]
    ELSE LET m1 == IF Has(st.metadata, conversation_id)
                   THEN [st.metadata EXCEPT
                           ![conversation_id] = Del(@, "floorGranted")]
                   ELSE st.metadata
             st1 == FloorState(Del(st.holders, conversation_id),
                               st.requests, m1)
         IN  [st |-> process_queue(st1, conversation_id), result |-> TRUE]

\* FloorControl.get_floor_holder on the dictionaries st
FloorControl_get_floor_holder(st, conversation_id) ==
    IF ~Has(st.holders, conversation_id)
    THEN [st |-> st, result |-> None]
    ELSE LET holder == st.holders[conversation_id]
         IN  IF Expired(holder, now)
             THEN [st |-> revoke_floor(st, conversation_id), result |-> None]
             ELSE [st |-> st, result |-> holder.speakerUri]

\* -------------------------------------------------------------- envelopes
\* envelope.py, class EventType
EventTypes == {"utterance", "context", "invite", "uninvite", "acceptInvite",
               "declineInvite", "bye", "getManifests", "publishManifests",
               "requestFloor", "grantFloor", "revokeFloor", "yieldFloor"}

\* An Optional field is a sequence of length at most one: <<>> is None.
\* ToObject: speakerUri is itself optional (None when left out)
ToObject(speakerUri, private) == [speakerUri |-> speakerUri, private |-> private]

\* EventObject; parameters is <<>> when the event has no parameters or no
\* "priority" among them, and <<p>> when parameters["priority"] is p
EventObject(to, eventType, parameters) ==
    [to |-> to, eventType |-> eventType, parameters |-> parameters]

\* OpenFloorEnvelope: conversation.id, sender.speakerUri and the events
OpenFloorEnvelope(conversation_id, sender, events) ==
    [conversation_id |-> conversation_id, sender |-> sender, events |-> events]

\* what a registered handler does when awaited under the delivery timeout:
\* it returns, it raises, or it is still running when the timeout expires
Handlers == {"h_ok", "h_raise", "h_timeout"}

\* await asyncio.wait_for(handler(envelope), timeout) completes without an
\* exception, so that routed = True is reached
Completes_always(handler) == TRUE

Completes(handler) == handler = "h_ok"

\* the exception that ends the await is caught by the except clauses around
\* it (except Exception; the timeout raises asyncio.TimeoutError)
Caught_timeout_only(handler) == handler = "h_timeout"

Caught(handler) == handler \in {"h_raise", "h_timeout"}

\* is_private of route_envelope
IsPrivate(event) ==
    /\ event.to # <<>>
    /\ event.to[1].private
    /\ event.eventType = "utterance"

\* the speakerUris whose handlers route_envelope invokes for one event
Recipients_include_sender(rts, sender, event) ==
    IF event.to = <<>>
    THEN DOMAIN rts
    ELSE LET target_speakerUri == event.to[1].speakerUri
         IN  IF target_speakerUri = None THEN {}
             ELSE IF target_speakerUri \in DOMAIN rts
                  THEN {target_speakerUri} ELSE {}

Recipients_private_broadcast(rts, sender, event) ==
    IF event.to = <<>> \/ IsPrivate(event)
    THEN DOMAIN rts \ {sender}
    ELSE LET target_speakerUri == event.to[1].speakerUri
         IN  IF target_speakerUri = None THEN {}
             ELSE IF target_speakerUri \in DOMAIN rts
                  THEN {target_speakerUri} ELSE {}

Recipients_flag_for_all_types(rts, sender, event) ==
    IF event.to = <<>>
    THEN DOMAIN rts \ {sender}
    ELSE LET target_speakerUri == event.to[1].speakerUri
         IN  IF target_speakerUri = None THEN {}
             ELSE IF event.to[1].private
                  THEN IF target_speakerUri \in DOMAIN rts
                       THEN {target_speakerUri} ELSE {}
                  ELSE DOMAIN rts \ {sender}

Recipients(rts, sender, event) ==
    IF event.to = <<>>
    THEN DOMAIN rts \ {sender}
    ELSE LET target_speakerUri == event.to[1].speakerUri
         IN  IF target_speakerUri = None THEN {}
             ELSE IF IsPrivate(event)
                  THEN IF target_speakerUri \in DOMAIN rts
                       THEN {target_speakerUri} ELSE {}
                  ELSE IF target_speakerUri \in DOMAIN rts
                       THEN {target_speakerUri} ELSE {}

\* a set as a sequence.  The table is iterated in the order its keys were
\* inserted, which the table of the model does not keep; handlers of every
\* kind are registered under every key, so each handler is met in every
\* position.
RECURSIVE SeqOf(_)
SeqOf(S) ==
    IF S = {} THEN <<>>
    ELSE LET x == CHOOSE y \in S : TRUE IN <<x>> \o SeqOf(S \ {x})

\* the handler invocations route_envelope sets out to make, in order, from
\* the i-th event on: <<index of the event, speakerUri>>
RECURSIVE Invocations(_, _, _)
Invocations(rts, envelope, i) ==
    IF i > Len(envelope.events) THEN <<>>
    ELSE LET recipients ==
                 SeqOf(Recipients(rts, envelope.sender, envelope.events[i]))
         IN  [k \in DOMAIN recipients |-> <<i, recipients[k]>>]
             \o Invocations(rts, envelope, i + 1)

\* the loop of route_envelope from the k-th invocation on: an invocation whose
\* exception is not caught ends the call
RECURSIVE Deliver(_, _, _, _)
Deliver(rts, invocations, k, deliveries) ==
    IF k > Len(invocations)
    THEN [deliveries |-> deliveries, raised |-> FALSE]
    ELSE LET d == [event |-> invocations[k][1],
                   speakerUri |-> invocations[k][2],
                   outcome |-> rts[invocations[k][2]]]
         IN  IF Completes(d.outcome) \/ Caught(d.outcome)
             THEN Deliver(rts, invocations, k + 1, deliveries \cup {d})
             ELSE [deliveries |-> deliveries \cup {d}, raised |-> TRUE]

\* EnvelopeRouter.route_envelope on the routing table rts: the handler
\* invocations made, each with the index of the event it was made for and
\* what the handler did, the value returned, and whether the call raised
EnvelopeRouter_route_envelope(rts, envelope) ==
    LET r == Deliver(rts, Invocations(rts, envelope, 1), 1, {})
    IN  [deliveries |-> r.deliveries,
         routed |-> \E d \in r.deliveries : Completes(d.outcome),
         raised |-> r.raised]

\* FloorManager.route_envelope: the same code as EnvelopeRouter's
FloorManager_route_envelope(rts, envelope) ==
    EnvelopeRouter_route_envelope(rts, envelope)

\* ---------------------------------------------------------- floor manager
\* event.parameters.get("priority", 0) if event.parameters else 0
PriorityOf(event) ==
    IF event.parameters # <<>> THEN event.parameters[1] ELSE 0

\* FloorManager._process_event on the convener's dictionaries st; a
\* requestFloor is the n-th request made.  FloorManager.__init__ always
\* gives the manager a convener, so the minimal mode is never taken.
process_event_revokes(st, envelope, event, n) ==
    IF event.eventType = "requestFloor"
    THEN FloorControl_request_floor(st, envelope.conversation_id,
                                    envelope.sender, PriorityOf(event), n).st
    ELSE IF event.eventType = "yieldFloor"
    THEN FloorControl_release_floor(st, envelope.conversation_id,
                                    envelope.sender).st
    ELSE IF event.eventType = "revokeFloor"
    THEN revoke_floor(st, envelope.conversation_id)
    ELSE st

process_event(st, envelope, event, n) ==
    IF event.eventType = "requestFloor"
    THEN FloorControl_request_floor(st, envelope.conversation_id,
                                    envelope.sender, PriorityOf(event), n).st
    ELSE IF event.eventType = "yieldFloor"
    THEN FloorControl_release_floor(st, envelope.conversation_id,
                                    envelope.sender).st
    ELSE st

\* the requestFloor events among the first k events of an envelope
NumRequests(envelope, k) ==
    Cardinality({i \in 1..k : envelope.events[i].eventType = "requestFloor"})

\* for event in envelope.events: await self._process_event(envelope, event),
\* from the i-th event on; n requests were made before the envelope came
RECURSIVE process_events(_, _, _, _)
process_events(st, envelope, i, n) ==
    IF i > Len(envelope.events) THEN st
    ELSE process_events(
             process_event(st, envelope, envelope.events[i],
                           n + NumRequests(envelope, i)),
             envelope, i + 1, n)

\* FloorManager.process_envelope on the convener's dictionaries st and the
\* routing table rts: the dictionaries it leaves, the handler invocations
\* made, the dictionaries as they stood while the handlers were invoked,
\* whether the dictionaries changed, and the value returned
FloorManager_process_envelope_route_first(st, rts, envelope, n) ==
    LET r == FloorManager_route_envelope(rts, envelope)
        st1 == process_events(st, envelope, 1, n)
    IN  [convener |-> st1, deliveries |-> r.deliveries, observed |-> st,
         mutated |-> st1 # st, result |-> TRUE, raised |-> r.raised]

FloorManager_process_envelope(st, rts, envelope, n) ==
    LET st1 == process_events(st, envelope, 1, n)
        r == FloorManager_route_envelope(rts, envelope)
    IN  [convener |-> st1, deliveries |-> r.deliveries, observed |-> st1,
         mutated |-> st1 # st, result |-> TRUE, raised |-> r.raised]

\* ------------------------------------------------- iteration of the table
\* self._routes is a dict: its keys are kept in an array of entries in the
\* order of insertion, a deleted key leaves a hole (None) in the array, and
\* the array is not compacted before its sixth insertion.  An iterator over
\* items() keeps the size the dict had when the iterator was made (used),
\* the number of items it has yet to yield (len) and its position in the
\* array (pos).
NoWalk == [status |-> "idle", entries |-> <<>>, used |-> 0, len |-> 0,
           pos |-> 1, sender |-> None, invoked |-> {}, writes |-> 0]

\* the positions of the array from pos on that hold a key
LiveFrom(entries, pos) == {i \in pos..Len(entries) : entries[i] # None}

\* least element of a non-empty set of numbers
Min(S) == CHOOSE x \in S : \A y \in S : x <= y

\* the broadcast loop of route_envelope from its next call of the iterator
\* to the await of a handler, the end of the loop, or the RuntimeError the
\* iterator raises when the dict has changed size (or has a key where the
\* iterator expects none); the sender's own entry is passed over
RECURSIVE Advance(_, _)
Advance(w, rts) ==
    IF Cardinality(DOMAIN rts) # w.used
    THEN [w EXCEPT !.status = "raised"]
    ELSE IF LiveFrom(w.entries, w.pos) = {}
    THEN [w EXCEPT !.status = "returned"]
    ELSE IF w.len = 0
    THEN [w EXCEPT !.status = "raised"]
    ELSE LET i == Min(LiveFrom(w.entries, w.pos))
             w1 == [w EXCEPT !.pos = i + 1, !.len = @ - 1]
         IN  IF w.entries[i] = w.sender
             THEN Advance(w1, rts)
             ELSE [w1 EXCEPT !.status = "suspended",
                             !.invoked = @ \cup {w.entries[i]}]

\* ---------------------------------------------------- real-time updates
\* api/websocket.py.  sockets and streams hold, for every WebSocket accepted
\* and every SSE generator started, the conversation id of its URL, the
\* messages it has been sent (received), and the number of broadcasts made
\* before it was opened (since); a stream also has its own asyncio.Queue.
NoHub == [active_websockets |-> {}, sockets |-> <<>>,
          active_sse_queues |-> <<>>, streams |-> <<>>, broadcasts |-> 0]

\* a message; holder and queue are those of an initial_status, n numbers the
\* floor_update broadcasts
Message(type, conversation_id, holder, queue, n) ==
    [type |-> type, conversation_id |-> conversation_id, holder |-> holder,
     queue |-> queue, n |-> n]

\* the initial_status message: the holder get_floor_holder returned and the
\* requests of floor_control._floor_requests
InitialStatus(st, conversation_id, holder) ==
    Message("initial_status", conversation_id, holder,
            IF Has(st.requests, conversation_id)
            THEN [i \in DOMAIN st.requests[conversation_id] |->
                    [speakerUri |-> st.requests[conversation_id][i].speakerUri,
                     priority |-> st.requests[conversation_id][i].priority]]
            ELSE <<>>,
            0)

\* broadcast_floor_update on the hub h, as the n-th broadcast: the message
\* is sent to every WebSocket of active_websockets and put on the queue that
\* active_sse_queues holds for the conversation.  Every send succeeds.
broadcast(h, conversation_id, n) ==
    LET message == Message("floor_update", conversation_id, None, <<>>, n)
    IN  [h EXCEPT
           !.broadcasts = n,
           !.sockets = [w \in DOMAIN @ |->
                          IF w \in h.active_websockets
                          THEN [@[w] EXCEPT !.received = Append(@, message)]
                          ELSE @[w]],
           !.streams = [g \in DOMAIN @ |->
                          IF Has(h.active_sse_queues, conversation_id)
                             /\ h.active_sse_queues[conversation_id] = g
                          THEN [@[g] EXCEPT !.queue = Append(@, message)]
                          ELSE @[g]]]

\* ------------------------------------------------- convener orchestrator
\* orchestration/convener.py, ConvenerOrchestrator.__init__ with the default
\* strategy ROUND_ROBIN; participants maps a speakerUri to its priority
NoOrchestrator ==
    [participants |-> <<>>, turn_order |-> <<>>, current_turn_index |-> 0]

\* list.remove(x): the list without the first occurrence of x
RemoveFirst(list, x) ==
    IF \E i \in DOMAIN list : list[i] = x
    THEN LET k == CHOOSE i \in DOMAIN list :
                      list[i] = x /\ \A j \in 1..(i - 1) : list[j] # x
         IN  SubSeq(list, 1, k - 1) \o SubSeq(list, k + 1, Len(list))
    ELSE list

\* ConvenerOrchestrator.revoke_floor on the dictionaries st of its
\* FloorControl
ConvenerOrchestrator_revoke_floor(st, conversation_id, speakerUri) ==
    LET held == FloorControl_get_floor_holder(st, conversation_id)
    IN  IF held.result # speakerUri
        THEN [st |-> held.st, result |-> FALSE]
        ELSE [st |-> FloorControl_release_floor(held.st, conversation_id,
                                                speakerUri).st,
              result |-> TRUE]

\* ------------------------------------------------------ envelope parsing
\* envelope_router/envelope.py.  A document is the dict handed to from_dict:
\* wrapped says whether it is under an "openFloor" key; schema, conversation,
\* sender and events are <<>> when the key is missing; conversation is
\* <<[id |-> <<>>]>> when it has no id, sender likewise with speakerUri;
\* events is <<list>> with the list of the events' eventType strings.
\* The fields pydantic requires of OpenFloorEnvelope and of its parts:
\* schema, conversation with id, sender with speakerUri, events, and an
\* eventType of the EventType enumeration in every event.
Validates(document) ==
    /\ document.schema # <<>>
    /\ document.conversation # <<>>
    /\ document.conversation[1].id # <<>>
    /\ document.sender # <<>>
    /\ document.sender[1].speakerUri # <<>>
    /\ document.events # <<>>
    /\ \A i \in DOMAIN document.events[1] :
          document.events[1][i] \in EventTypes

\* the document with no key at all
NoDocument == [wrapped |-> FALSE, schema |-> <<>>, conversation |-> <<>>,
               sender |-> <<>>, events |-> <<>>]

NoParse == [op |-> "none", ok |-> FALSE, document |-> NoDocument,
            envelope |-> OpenFloorEnvelope(None, None, <<>>)]

\* OpenFloorEnvelope.from_dict: cls(**data["openFloor"]) or cls(**data); ok is
\* FALSE when pydantic raises ValidationError
OpenFloorEnvelope_from_dict(document) ==
    IF Validates(document)
    THEN [ok |-> TRUE,
          envelope |-> OpenFloorEnvelope(
              document.conversation[1].id[1], document.sender[1].speakerUri[1],
              [i \in DOMAIN document.events[1] |->
                  EventObject(<<>>, document.events[1][i], <<>>)])]
    ELSE [ok |-> FALSE, envelope |-> NoParse.envelope]

\* FloorManager.create_envelope; events is <<>> for None and <<list>> for a
\* list of events
FloorManager_create_envelope(conversation_id, sender_speakerUri, events) ==
    OpenFloorEnvelope(conversation_id, sender_speakerUri,
                      IF events = <<>> \/ events[1] = <<>> THEN <<>>
                      ELSE events[1])

\* ------------------------------------------------------- agent directory
\* ans/models.py and ans/storage.py.  A ManifestData here has the speakerUri,
\* serviceUrl, organization and role of its identification and its list of
\* capabilities; conversationalName, synopsis and metadata are copied the way
\* serviceUrl is.  id 0 is the None of a Manifest that has not been stored.
Manifest_from_manifest_data(manifest_data, t) ==
    [id |-> 0,
     speaker_uri |-> manifest_data.speakerUri,
     service_url |-> manifest_data.serviceUrl,
     organization |-> manifest_data.organization,
     role |-> manifest_data.role,
     capabilities |-> manifest_data.capabilities,
     status |-> "active",
     published_at |-> t,
     updated_at |-> t]

ManifestStorage_store_replaces(ms, manifest, t) ==
    Put(ms, manifest.speaker_uri,
        [manifest EXCEPT !.id = Cardinality(DOMAIN ms) + 1,
                         !.published_at = t,
                         !.updated_at = t])

\* ManifestStorage.store on the dict ms at time t: the dict afterwards
ManifestStorage_store(ms, manifest, t) ==
    IF Has(ms, manifest.speaker_uri)
    THEN Put(ms, manifest.speaker_uri,
             [manifest EXCEPT !.id = ms[manifest.speaker_uri].id,
                              !.published_at = ms[manifest.speaker_uri].published_at,
                              !.updated_at = t])
    ELSE Put(ms, manifest.speaker_uri,
             [manifest EXCEPT !.id = Cardinality(DOMAIN ms) + 1,
                              !.published_at = t,
                              !.updated_at = t])

\* set(list)
SetOf(list) == {list[i] : i \in DOMAIN list}

HasAll_any(required_caps, capabilities) ==
    SetOf(required_caps) \cap SetOf(capabilities) # {}

\* required_caps.issubset(set(m.capabilities))
HasAll(required_caps, capabilities) ==
    SetOf(required_caps) \subseteq SetOf(capabilities)

StatusKept_no_default(m, status) == status # None => m.status = status

\* the status test of search: filters.status when it is given, active when
\* it is None
StatusKept(m, status) ==
    IF status # None THEN m.status = status ELSE m.status = "active"

\* the test "if filters.x:" on an Optional[str]: None and "" are false
Truthy(x) == x # None /\ x # ""

\* ManifestStorage.search on the dict ms: the manifests of the list it
\* returns, as a set.  filters is <<>> for None and <<f>> for a
\* ManifestFilters f; a capabilities filter of <<>> is None or the empty list.
ManifestStorage_search(ms, filters) ==
    LET results == {ms[k] : k \in DOMAIN ms}
    IN  IF filters = <<>>
        THEN {m \in results : m.status = "active"}
        ELSE LET f == filters[1]
                 by_status == {m \in results : StatusKept(m, f.status)}
                 by_speaker ==
                     IF Truthy(f.speaker_uri)
                     THEN {m \in by_status : m.speaker_uri = f.speaker_uri}
                     ELSE by_status
                 by_organization ==
                     IF Truthy(f.organization)
                     THEN {m \in by_speaker : m.organization = f.organization}
                     ELSE by_speaker
                 by_role ==
                     IF Truthy(f.role)
                     THEN {m \in by_organization : m.role = f.role}
                     ELSE by_organization
             IN  IF f.capabilities # <<>>
                 THEN {m \in by_role : HasAll(f.capabilities, m.capabilities)}
                 ELSE by_role

NoSearch == [op |-> "none", filters |-> <<>>, results |-> {}]

\* the loop of AgentNameServer.publish_manifests from its k-th manifest on
RECURSIVE publish_each(_, _, _, _)
publish_each(ms, manifest_datas, k, t) ==
    IF k > Len(manifest_datas) THEN ms
    ELSE publish_each(
             ManifestStorage_store(
                 ms, Manifest_from_manifest_data(manifest_datas[k], t), t),
             manifest_datas, k + 1, t)

\* ------------------------------------------------------------------- Init
\* no call on the router or the manager has returned yet
NoRoute == [op |-> "none", envelope |-> OpenFloorEnvelope(None, None, <<>>),
            deliveries |-> {}, observed |-> FloorState(<<>>, <<>>, <<>>),
            mutated |-> FALSE, result |-> FALSE, raised |-> FALSE,
            speakerUri |-> None, handler |-> None, previous |-> None]

Init ==
    /\ floor_holders = <<>>
    /\ floor_requests = <<>>
    /\ conversation_metadata = <<>>
    /\ now = 0
    /\ arrivals = 0
    /\ ret = NoCall
    /\ convener = FloorState(<<>>, <<>>, <<>>)
    /\ routes = <<>>
    /\ last = NoRoute
    /\ walk = NoWalk
    /\ tasks = <<>>
    /\ hub = NoHub
    /\ manifests = EmptyDict
    /\ published = <<>>
    /\ found = NoSearch
    /\ parsed = NoParse
    /\ orchestrator = NoOrchestrator

Current == FloorState(floor_holders, floor_requests, conversation_metadata)

Commit(st) ==
    /\ floor_holders' = st.holders
    /\ floor_requests' = st.requests
    /\ conversation_metadata' = st.metadata

Return(op, conversation_id, speakerUri, result) ==
    ret' = [op |-> op, conversation_id |-> conversation_id,
            speakerUri |-> speakerUri, result |-> result]

\* ---------------------------------------------------------------- actions
\* FloorControl.request_floor.  The seq field of a queued request is its
\* arrival number: a label by which arrival order can be stated, which no
\* operation reads.
request_floor(conversation_id, speakerUri, priority) ==
    /\ arrivals < MaxRequests
    /\ arrivals' = arrivals + 1
    /\ LET r == FloorControl_request_floor(Current, conversation_id, speakerUri,
                                           priority, arrivals + 1)
       IN  /\ Commit(r.st)
           /\ Return("request_floor", conversation_id, speakerUri, r.result)
    /\ UNCHANGED <<orchestrator, parsed, found, published, manifests, hub,
                   tasks, walk, now, convener, routes, last>>

\* FloorControl.release_floor
release_floor(conversation_id, speakerUri) ==
    /\ LET r == FloorControl_release_floor(Current, conversation_id, speakerUri)
       IN  /\ Commit(r.st)
           /\ Return("release_floor", conversation_id, speakerUri, r.result)
    /\ UNCHANGED <<orchestrator, parsed, found, published, manifests, hub,
                   tasks, walk, now, arrivals, convener, routes, last>>

\* FloorControl.get_floor_holder
get_floor_holder(conversation_id) ==
    /\ LET r == FloorControl_get_floor_holder(Current, conversation_id)
       IN  /\ Commit(r.st)
           /\ Return("get_floor_holder", conversation_id, None, r.result)
    /\ UNCHANGED <<orchestrator, parsed, found, published, manifests, hub,
                   tasks, walk, now, arrivals, convener, routes, last>>

\* FloorControl.get_conversation_metadata
get_conversation_metadata(conversation_id) ==
    /\ Return("get_conversation_metadata", conversation_id, None,
              IF Has(conversation_metadata, conversation_id)
              THEN conversation_metadata[conversation_id]
              ELSE [k \in {"assignedFloorRoles"} |-> EmptyDict])
    /\ UNCHANGED <<orchestrator, parsed, found, published, manifests, hub,
                   tasks, walk, floor_holders, floor_requests,
                   conversation_metadata, now, arrivals, convener, routes, last>>

\* the wall clock moves on between calls; the call that had just returned
\* is then no longer the immediately preceding event
Tick ==
    /\ now < MaxTime
    /\ now' = now + 1
    /\ ret' = NoCall
    /\ UNCHANGED <<orchestrator, parsed, found, published, manifests, hub,
                   tasks, walk, floor_holders, floor_requests,
                   conversation_metadata, arrivals, convener, routes, last>>

Next ==
    \/ \E c \in ConversationIds, s \in SpeakerUris, p \in Priorities :
          request_floor(c, s, p)
    \/ \E c \in ConversationIds, s \in SpeakerUris : release_floor(c, s)
    \/ \E c \in ConversationIds : get_floor_holder(c)
    \/ \E c \in ConversationIds : get_conversation_metadata(c)
    \/ Tick

Spec == Init /\ [][Next]_vars

\* ----------------------------------------------------------------- router
\* the handler registered under speakerUri, None if there is none
HandlerOf(rts, speakerUri) ==
    IF Has(rts, speakerUri) THEN rts[speakerUri] ELSE None

\* EnvelopeRouter.register_route (FloorManager.register_route is the same);
\* previous is the handler the call found registered
register_route_first_write_wins(speakerUri, handler) ==
    /\ routes' = IF Has(routes, speakerUri) THEN routes
                 ELSE Put(routes, speakerUri, handler)
    /\ last' = [NoRoute EXCEPT !.op = "register_route",
                               !.speakerUri = speakerUri,
                               !.handler = handler,
                               !.previous = HandlerOf(routes, speakerUri)]
    /\ UNCHANGED <<orchestrator, parsed, found, published, manifests, hub,
                   tasks, walk, floor_holders, floor_requests,
                   conversation_metadata, now, arrivals, ret, convener>>

register_route(speakerUri, handler) ==
    /\ routes' = Put(routes, speakerUri, handler)
    /\ last' = [NoRoute EXCEPT !.op = "register_route",
                               !.speakerUri = speakerUri,
                               !.handler = handler,
                               !.previous = HandlerOf(routes, speakerUri)]
    /\ UNCHANGED <<orchestrator, parsed, found, published, manifests, hub,
                   tasks, walk, floor_holders, floor_requests,
                   conversation_metadata, now, arrivals, ret, convener>>

\* EnvelopeRouter.unregister_route (FloorManager.unregister_route is the same)
unregister_route(speakerUri) ==
    /\ routes' = IF Has(routes, speakerUri) THEN Del(routes, speakerUri)
                 ELSE routes
    /\ last' = [NoRoute EXCEPT !.op = "unregister_route",
                               !.speakerUri = speakerUri,
                               !.previous = HandlerOf(routes, speakerUri)]
    /\ UNCHANGED <<orchestrator, parsed, found, published, manifests, hub,
                   tasks, walk, floor_holders, floor_requests,
                   conversation_metadata, now, arrivals, ret, convener>>

\* EnvelopeRouter.route_envelope
route_envelope(envelope) ==
    /\ LET r == EnvelopeRouter_route_envelope(routes, envelope)
       IN  last' = [NoRoute EXCEPT !.op = "route_envelope",
                                  !.envelope = envelope,
                                  !.deliveries = r.deliveries,
                                  !.result = r.routed,
                                  !.raised = r.raised]
    /\ UNCHANGED <<orchestrator, parsed, found, published, manifests, hub,
                   tasks, walk, floor_holders, floor_requests,
                   conversation_metadata, now, arrivals, ret, convener, routes>>

\* the addressing blocks an event may carry
Tos == {<<>>} \cup {<<ToObject(s, private)>> :
                        s \in SpeakerUris \cup {None}, private \in BOOLEAN}

\* events that are paired in two-event envelopes
PairEvents ==
    {EventObject(<<>>, "utterance", <<>>),
     EventObject(<<ToObject("s:b", TRUE)>>, "utterance", <<>>),
     EventObject(<<>>, "invite", <<>>),
     EventObject(<<ToObject("s:c", TRUE)>>, "invite", <<>>)}

\* the senders of routed envelopes.  Handlers are registered and removed
\* under every speakerUri, the sender's own included, so one sender meets
\* every way a routing table can stand to a sender.
RouterSenders == {"s:a"}

\* the envelopes routed: every event type under every addressing block alone,
\* and pairs of events with different addressing
RouterEnvelopes ==
    {OpenFloorEnvelope(c, sender, <<EventObject(to, eventType, <<>>)>>) :
        c \in ConversationIds, sender \in RouterSenders,
        to \in Tos, eventType \in EventTypes}
    \cup
    {OpenFloorEnvelope(c, sender, <<e1, e2>>) :
        c \in ConversationIds, sender \in RouterSenders,
        e1 \in PairEvents, e2 \in PairEvents}

NextRouter ==
    \/ \E s \in SpeakerUris, h \in Handlers : register_route(s, h)
    \/ \E s \in SpeakerUris : unregister_route(s)
    \/ \E envelope \in RouterEnvelopes : route_envelope(envelope)

SpecRouter == Init /\ [][NextRouter]_vars

\* ---------------------------------------------------------- floor manager
\* FloorManager.process_envelope, called on the manager that
\* get_floor_manager() builds; the floor query that had just returned is
\* then no longer the latest event
process_envelope(envelope) ==
    /\ arrivals + NumRequests(envelope, Len(envelope.events))
           <= MaxEnvelopeRequests
    /\ arrivals' = arrivals + NumRequests(envelope, Len(envelope.events))
    /\ LET r == FloorManager_process_envelope(convener, routes, envelope,
                                              arrivals)
       IN  /\ convener' = r.convener
           /\ last' = [NoRoute EXCEPT !.op = "process_envelope",
                                      !.envelope = envelope,
                                      !.deliveries = r.deliveries,
                                      !.observed = r.observed,
                                      !.mutated = r.mutated,
                                      !.result = r.result,
                                      !.raised = r.raised]
    /\ ret' = NoCall
    /\ UNCHANGED <<orchestrator, parsed, found, published, manifests, hub,
                   tasks, walk, floor_holders, floor_requests,
                   conversation_metadata, now, routes>>

\* the senders of processed envelopes, and the speakerUris under which
\* handlers are registered with the manager
ManagerSenders == {"s:a", "s:b"}
ManagerRoutes == {"s:c"}
ManagerHandlers == {"h_ok", "h_raise"}

\* the event lists processed: every event type alone as a broadcast, a
\* requestFloor with a priority, a private utterance, and pairs of a floor
\* event with another floor event or an utterance
ManagerEvents ==
    {<<EventObject(<<>>, eventType, <<>>)>> : eventType \in EventTypes}
    \cup
    {<<EventObject(<<>>, "requestFloor", <<1>>)>>,
     <<EventObject(<<ToObject("s:c", TRUE)>>, "utterance", <<>>)>>}
    \cup
    {<<EventObject(<<>>, t1, <<>>), EventObject(<<>>, t2, <<>>)>> :
        t1 \in {"requestFloor", "yieldFloor", "revokeFloor"},
        t2 \in {"requestFloor", "yieldFloor", "utterance"}}

ManagerEnvelopes ==
    {OpenFloorEnvelope(c, sender, events) :
        c \in ConversationIds, sender \in ManagerSenders,
        events \in ManagerEvents}

\* the manager and, beside it, the FloorControl that get_floor_control()
\* builds for the floor query path
NextManager ==
    \/ \E envelope \in ManagerEnvelopes : process_envelope(envelope)
    \/ \E s \in ManagerRoutes, h \in ManagerHandlers : register_route(s, h)
    \/ \E s \in ManagerRoutes : unregister_route(s)
    \/ \E c \in ConversationIds : get_floor_holder(c)

SpecManager == Init /\ [][NextManager]_vars

\* ------------------------------------- table writes during a broadcast
\* EnvelopeRouter.register_route on the dict with its key order, run before a
\* broadcast or while the broadcast is suspended in a handler
dict_register_route(speakerUri, handler) ==
    /\ walk.status \in {"idle", "suspended"}
    /\ walk.writes < MaxTableWrites
    /\ routes' = Put(routes, speakerUri, handler)
    /\ walk' = [walk EXCEPT !.writes = @ + 1,
                            !.entries = IF Has(routes, speakerUri) THEN @
                                        ELSE Append(@, speakerUri)]
    /\ UNCHANGED <<orchestrator, parsed, found, published, manifests, hub,
                   tasks, floor_holders, floor_requests, conversation_metadata,
                   now, arrivals, ret, convener, last>>

\* EnvelopeRouter.unregister_route on the dict with its key order
dict_unregister_route(speakerUri) ==
    /\ walk.status \in {"idle", "suspended"}
    /\ walk.writes < MaxTableWrites
    /\ routes' = IF Has(routes, speakerUri) THEN Del(routes, speakerUri)
                 ELSE routes
    /\ walk' = [walk EXCEPT !.writes = @ + 1,
                            !.entries = [i \in DOMAIN @ |->
                                           IF @[i] = speakerUri THEN None
                                           ELSE @[i]]]
    /\ UNCHANGED <<orchestrator, parsed, found, published, manifests, hub,
                   tasks, floor_holders, floor_requests, conversation_metadata,
                   now, arrivals, ret, convener, last>>

\* EnvelopeRouter.route_envelope of an envelope of sender with one event that
\* has no to block, up to its first await of a handler
route_broadcast_begin(sender) ==
    /\ walk.status = "idle"
    /\ walk' = Advance([walk EXCEPT !.sender = sender,
                                    !.used = Cardinality(DOMAIN routes),
                                    !.len = Cardinality(DOMAIN routes),
                                    !.pos = 1],
                       routes)
    /\ UNCHANGED <<orchestrator, parsed, found, published, manifests, hub,
                   tasks, floor_holders, floor_requests, conversation_metadata,
                   now, arrivals, ret, convener, routes, last>>

\* the awaited handler returns, raises or times out, and the loop goes on
route_broadcast_resume ==
    /\ walk.status = "suspended"
    /\ walk' = Advance(walk, routes)
    /\ UNCHANGED <<orchestrator, parsed, found, published, manifests, hub,
                   tasks, floor_holders, floor_requests, conversation_metadata,
                   now, arrivals, ret, convener, routes, last>>

NextConcurrentRoutes ==
    \/ \E s \in SpeakerUris, h \in ManagerHandlers : dict_register_route(s, h)
    \/ \E s \in SpeakerUris : dict_unregister_route(s)
    \/ \E sender \in RouterSenders : route_broadcast_begin(sender)
    \/ route_broadcast_resume

SpecConcurrentRoutes == Init /\ [][NextConcurrentRoutes]_vars

\* ------------------------------------------- FloorControl calls as tasks
\* A task runs until it awaits something that suspends; only then can the
\* event loop run another task.  The coroutines FloorControl awaits
\* (_grant_floor, _process_queue, _revoke_floor) contain no await that
\* suspends, so awaiting them hands control to nobody.
Suspends_always(callee) == TRUE

Suspends(callee) == FALSE

\* a call of FloorControl as a value
Call(op, conversation_id, speakerUri, priority) ==
    [op |-> op, conversation_id |-> conversation_id,
     speakerUri |-> speakerUri, priority |-> priority]

\* the calls started as tasks
TaskSpeakers == {"s:a", "s:b"}
TaskCalls ==
    {Call("request_floor", c, s, 0) : c \in ConversationIds, s \in TaskSpeakers}
    \cup
    {Call("release_floor", c, s, 0) : c \in ConversationIds, s \in TaskSpeakers}
    \cup
    {Call("get_floor_holder", c, None, 0) : c \in ConversationIds}

\* asyncio.create_task of a FloorControl call; the tasks are all created
\* before the event loop runs any of them
start_task(call) ==
    /\ Len(tasks) < MaxTasks
    /\ \A i \in DOMAIN tasks : tasks[i].pc = "start"
    /\ tasks' = Append(tasks, [call |-> call, pc |-> "start", result |-> None])
    /\ UNCHANGED <<orchestrator, parsed, found, published, manifests, hub,
                   floor_holders, floor_requests, conversation_metadata, now,
                   arrivals, ret, convener, routes, last, walk>>

\* the task is finished with the value its call returns
Finish(i, result) ==
    tasks' = [tasks EXCEPT ![i].pc = "done", ![i].result = result]

\* the task stops at an await that suspends
Suspend(i, pc) ==
    tasks' = [tasks EXCEPT ![i].pc = pc]

\* the event loop runs the i-th task from where it stands to its next
\* suspension or to its end
run_task(i) ==
    LET call == tasks[i].call
        c == call.conversation_id
    IN
    /\ tasks[i].pc # "done"
    /\ IF tasks[i].pc = "start" /\ call.op = "request_floor"
       THEN LET m1 == IF Has(conversation_metadata, c)
                      THEN conversation_metadata
                      ELSE Put(conversation_metadata, c,
                               [k \in {"assignedFloorRoles"} |-> EmptyDict])
                st1 == FloorState(floor_holders, floor_requests, m1)
            IN  /\ arrivals' = arrivals + 1
                /\ IF FloorAvailable(floor_holders, floor_requests, c)
                   THEN IF Suspends("_grant_floor")
                        THEN Commit(st1) /\ Suspend(i, "await _grant_floor")
                        ELSE /\ Commit(grant_floor(st1, c, call.speakerUri))
                             /\ Finish(i, TRUE)
                   ELSE /\ Commit(FloorControl_request_floor(
                                      Current, c, call.speakerUri,
                                      call.priority, arrivals + 1).st)
                        /\ Finish(i, FALSE)
       ELSE IF tasks[i].pc = "await _grant_floor"
       THEN /\ Commit(grant_floor(Current, c, call.speakerUri))
            /\ Finish(i, TRUE)
            /\ UNCHANGED arrivals
       ELSE IF tasks[i].pc = "start" /\ call.op = "release_floor"
       THEN /\ UNCHANGED arrivals
            /\ IF ~Has(floor_holders, c)
               THEN Commit(Current) /\ Finish(i, FALSE)
               ELSE IF ~IsHolder(floor_holders[c], call.speakerUri)
               THEN Commit(Current) /\ Finish(i, FALSE)
               ELSE IF Suspends("_process_queue")
               THEN /\ Commit(FloorState(
                                  Del(floor_holders, c), floor_requests,
                                  IF Has(conversation_metadata, c)
                                  THEN [conversation_metadata EXCEPT
                                          ![c] = Del(@, "floorGranted")]
                                  ELSE conversation_metadata))
                    /\ Suspend(i, "await _process_queue")
               ELSE /\ Commit(FloorControl_release_floor(
                                  Current, c, call.speakerUri).st)
                    /\ Finish(i, TRUE)
       ELSE IF tasks[i].pc = "await _process_queue"
       THEN /\ Commit(process_queue(Current, c))
            /\ Finish(i, TRUE)
            /\ UNCHANGED arrivals
       ELSE LET r == FloorControl_get_floor_holder(Current, c)
            IN  /\ Commit(r.st)
                /\ Finish(i, r.result)
                /\ UNCHANGED arrivals
    /\ UNCHANGED <<orchestrator, parsed, found, published, manifests, hub, now,
                   ret, convener, routes, last, walk>>

NextTasks ==
    \/ \E call \in TaskCalls : start_task(call)
    \/ \E i \in DOMAIN tasks : run_task(i)

SpecTasks == Init /\ [][NextTasks]_vars

\* ------------------------------------------------------ two conversations
\* one FloorControl serving two conversations
TwoConversations == {"c1", "c2"}

NextTwoConversations ==
    \/ \E c \in TwoConversations, s \in TaskSpeakers : request_floor(c, s, 0)
    \/ \E c \in TwoConversations, s \in TaskSpeakers : release_floor(c, s)
    \/ \E c \in TwoConversations : get_floor_holder(c)
    \/ Tick

SpecTwoConversations == Init /\ [][NextTwoConversations]_vars

\* ---------------------------------------------------- real-time updates
\* websocket_floor_endpoint, up to its first wait for a client message
websocket_floor_endpoint(w, conversation_id) ==
    /\ ~Has(hub.sockets, w)
    /\ LET r == FloorControl_get_floor_holder(Current, conversation_id)
       IN  /\ Commit(r.st)
           /\ hub' = [hub EXCEPT
                        !.active_websockets = @ \cup {w},
                        !.sockets = Put(@, w,
                            [conversation_id |-> conversation_id,
                             received |-> <<InitialStatus(r.st, conversation_id,
                                                          r.result)>>,
                             since |-> hub.broadcasts])]
    /\ UNCHANGED <<orchestrator, parsed, found, published, manifests, now,
                   arrivals, ret, convener, routes, last, walk, tasks>>

\* websocket_floor_endpoint: the client closes or disconnects
websocket_disconnect(w) ==
    /\ w \in hub.active_websockets
    /\ hub' = [hub EXCEPT !.active_websockets = @ \ {w}]
    /\ UNCHANGED <<orchestrator, parsed, found, published, manifests,
                   floor_holders, floor_requests, conversation_metadata, now,
                   arrivals, ret, convener, routes, last, walk, tasks>>

\* sse_event_generator, up to its first wait on its queue
sse_event_generator(g, conversation_id) ==
    /\ ~Has(hub.streams, g)
    /\ LET r == FloorControl_get_floor_holder(Current, conversation_id)
       IN  /\ Commit(r.st)
           /\ hub' = [hub EXCEPT
                        !.active_sse_queues = Put(@, conversation_id, g),
                        !.streams = Put(@, g,
                            [conversation_id |-> conversation_id,
                             queue |-> <<>>,
                             received |-> <<InitialStatus(r.st, conversation_id,
                                                          r.result)>>,
                             since |-> hub.broadcasts,
                             open |-> TRUE])]
    /\ UNCHANGED <<orchestrator, parsed, found, published, manifests, now,
                   arrivals, ret, convener, routes, last, walk, tasks>>

\* sse_event_generator: a message arrives on the queue and is yielded
sse_yield(g) ==
    /\ Has(hub.streams, g)
    /\ hub.streams[g].open
    /\ hub.streams[g].queue # <<>>
    /\ hub' = [hub EXCEPT
                 !.streams[g].received = Append(@, Head(hub.streams[g].queue)),
                 !.streams[g].queue = Tail(@)]
    /\ UNCHANGED <<orchestrator, parsed, found, published, manifests,
                   floor_holders, floor_requests, conversation_metadata, now,
                   arrivals, ret, convener, routes, last, walk, tasks>>

\* sse_event_generator: the client goes away and the finally clause runs
sse_close(g) ==
    /\ Has(hub.streams, g)
    /\ hub.streams[g].open
    /\ hub' = [hub EXCEPT
                 !.streams[g].open = FALSE,
                 !.active_sse_queues =
                     IF Has(@, hub.streams[g].conversation_id)
                     THEN Del(@, hub.streams[g].conversation_id) ELSE @]
    /\ UNCHANGED <<orchestrator, parsed, found, published, manifests,
                   floor_holders, floor_requests, conversation_metadata, now,
                   arrivals, ret, convener, routes, last, walk, tasks>>

\* broadcast_floor_update
broadcast_floor_update(conversation_id) ==
    /\ hub.broadcasts < MaxBroadcasts
    /\ hub' = broadcast(hub, conversation_id, hub.broadcasts + 1)
    /\ UNCHANGED <<orchestrator, parsed, found, published, manifests,
                   floor_holders, floor_requests, conversation_metadata, now,
                   arrivals, ret, convener, routes, last, walk, tasks>>

Streams == {"g1", "g2"}

\* the hub taken alone, with something that calls broadcast_floor_update
NextHub ==
    \/ \E c \in TwoConversations : websocket_floor_endpoint("w1", c)
    \/ websocket_disconnect("w1")
    \/ \E g \in Streams, c \in TwoConversations : sse_event_generator(g, c)
    \/ \E g \in Streams : sse_yield(g)
    \/ \E g \in Streams : sse_close(g)
    \/ \E c \in TwoConversations : broadcast_floor_update(c)

SpecHub == Init /\ [][NextHub]_vars

\* the application: the floor endpoints of api/floor.py and the real-time
\* endpoints, which share the FloorControl of get_floor_control().  No
\* code of the application calls broadcast_floor_update.
NextFloorAndSubscribers ==
    \/ \E c \in ConversationIds, s \in TaskSpeakers : request_floor(c, s, 0)
    \/ \E c \in ConversationIds, s \in TaskSpeakers : release_floor(c, s)
    \/ Tick
    \/ \E c \in ConversationIds : websocket_floor_endpoint("w1", c)
    \/ \E c \in ConversationIds : sse_event_generator("g1", c)

SpecFloorAndSubscribers == Init /\ [][NextFloorAndSubscribers]_vars

\* ------------------------------------------------------- agent directory
\* AgentNameServer.publish_manifests: every manifest is converted and stored
publish_manifests(manifest_datas) ==
    /\ Len(published) + Len(manifest_datas) <= MaxDirectoryCalls
    /\ manifests' = publish_each(manifests, manifest_datas, 1, now)
    /\ published' = published \o
            [k \in DOMAIN manifest_datas |->
                [op |-> "store", speaker_uri |-> manifest_datas[k].speakerUri,
                 time |-> now, data |-> manifest_datas[k]]]
    /\ UNCHANGED <<orchestrator, parsed, found, hub, tasks, walk,
                   floor_holders, floor_requests, conversation_metadata, now,
                   arrivals, ret, convener, routes, last>>

\* ManifestStorage.delete
delete(speaker_uri) ==
    /\ Len(published) < MaxDirectoryCalls
    /\ manifests' = IF Has(manifests, speaker_uri)
                    THEN Del(manifests, speaker_uri) ELSE manifests
    /\ published' = Append(published,
            [op |-> "delete", speaker_uri |-> speaker_uri, time |-> now,
             data |-> [speakerUri |-> speaker_uri, serviceUrl |-> None,
                       organization |-> None, role |-> None,
                       capabilities |-> <<>>]])
    /\ UNCHANGED <<orchestrator, parsed, found, hub, tasks, walk,
                   floor_holders, floor_requests, conversation_metadata, now,
                   arrivals, ret, convener, routes, last>>

DirectorySpeakers == {"s:a", "s:b"}
ServiceUrls == {"u1", "u2"}
ManifestDatas ==
    [speakerUri : DirectorySpeakers, serviceUrl : ServiceUrls,
     organization : {None}, role : {None}, capabilities : {<<>>}]
PublishRequests ==
    {<<d>> : d \in ManifestDatas}
    \cup {<<d, e>> : d \in ManifestDatas, e \in ManifestDatas}

NextDirectory ==
    \/ \E manifest_datas \in PublishRequests : publish_manifests(manifest_datas)
    \/ \E s \in DirectorySpeakers : delete(s)
    \/ Tick

SpecDirectory == Init /\ [][NextDirectory]_vars

\* ------------------------------------------------------- directory search
\* ManifestStorage.store called with a Manifest of any status
store(manifest) ==
    /\ manifests' = ManifestStorage_store(manifests, manifest, now)
    /\ found' = NoSearch
    /\ UNCHANGED <<orchestrator, parsed, published, hub, tasks, walk,
                   floor_holders, floor_requests, conversation_metadata, now,
                   arrivals, ret, convener, routes, last>>

\* ManifestStorage.search
search(filters) ==
    /\ found' = [op |-> "search", filters |-> filters,
                 results |-> ManifestStorage_search(manifests, filters)]
    /\ UNCHANGED <<orchestrator, parsed, published, manifests, hub, tasks,
                   walk, floor_holders, floor_requests, conversation_metadata,
                   now, arrivals, ret, convener, routes, last>>

Organizations == {"o1", "o2"}
Roles == {"r1", "r2"}
CapabilityLists == {<<"text">>, <<"text", "translation">>}
ManifestStatuses == {"active", "deprecated"}

\* the manifests handed to store
Manifests ==
    [id : {0}, speaker_uri : DirectorySpeakers, service_url : {"u1"},
     organization : Organizations, role : {"r1"},
     capabilities : CapabilityLists, status : ManifestStatuses,
     published_at : {0}, updated_at : {0}]

\* the ManifestFilters handed to search
ManifestFilters ==
    [capabilities : CapabilityLists \cup {<<>>},
     organization : {None, "", "o1"},
     role : Roles \cup {None},
     speaker_uri : {None, "s:a"},
     status : ManifestStatuses \cup {None}]

NextSearch ==
    \/ \E manifest \in Manifests : store(manifest)
    \/ \E f \in ManifestFilters : search(<<f>>)
    \/ search(<<>>)

SpecSearch == Init /\ [][NextSearch]_vars

\* ------------------------------------------------ the queue drains
\* the holder of a conversation gives the floor up: it releases it, or its
\* grant has timed out and get_floor_holder is called
HolderGivesUp ==
    \E c \in ConversationIds :
        /\ Has(floor_holders, c)
        /\ \/ release_floor(c, floor_holders[c].speakerUri)
           \/ Expired(floor_holders[c], now) /\ get_floor_holder(c)

NextQueue ==
    \/ \E c \in ConversationIds, s \in TaskSpeakers : request_floor(c, s, 0)
    \/ \E c \in ConversationIds, s \in TaskSpeakers : release_floor(c, s)
    \/ \E c \in ConversationIds : get_floor_holder(c)
    \/ Tick

\* finitely many requests arrive (MaxRequests of them at most), and every
\* holder eventually gives the floor up
SpecQueueLiveness ==
    Init /\ [][NextQueue]_vars /\ WF_vars(HolderGivesUp)

\* ------------------------------------------------------ the holder query
\* api/floor.py, GET /floor/holder/{conversation_id}: get_floor_holder, then
\* get_conversation_metadata on what it left; floorGranted is <<>> when the
\* metadata has no such key
api_get_floor_holder(conversation_id) ==
    /\ LET r == FloorControl_get_floor_holder(Current, conversation_id)
           metadata == IF Has(r.st.metadata, conversation_id)
                       THEN r.st.metadata[conversation_id]
                       ELSE [k \in {"assignedFloorRoles"} |-> EmptyDict]
       IN  /\ Commit(r.st)
           /\ Return("api_get_floor_holder", conversation_id, None,
                     [holder |-> r.result,
                      has_floor |-> r.result # None,
                      floorGranted |-> IF Has(metadata, "floorGranted")
                                       THEN metadata["floorGranted"]
                                       ELSE <<>>])
    /\ UNCHANGED <<orchestrator, parsed, found, published, manifests, hub,
                   tasks, walk, now, arrivals, convener, routes, last>>

NextHolderQuery ==
    \/ \E c \in ConversationIds, s \in TaskSpeakers : request_floor(c, s, 0)
    \/ \E c \in ConversationIds, s \in TaskSpeakers : release_floor(c, s)
    \/ \E c \in ConversationIds : api_get_floor_holder(c)
    \/ Tick

SpecHolderQuery == Init /\ [][NextHolderQuery]_vars

\* ------------------------------------------------- convener orchestrator
\* ConvenerOrchestrator.invite_participant
invite_participant(conversation_id, participant_speakerUri, priority) ==
    /\ Len(orchestrator.turn_order) < MaxInvites
    /\ orchestrator' = [orchestrator EXCEPT
           !.participants = Put(@, participant_speakerUri, priority),
           !.turn_order = Append(@, participant_speakerUri)]
    /\ Return("invite_participant", conversation_id, participant_speakerUri,
              TRUE)
    /\ UNCHANGED <<parsed, found, published, manifests, hub, tasks, walk,
                   floor_holders, floor_requests, conversation_metadata, now,
                   arrivals, convener, routes, last>>

\* ConvenerOrchestrator.uninvite_participant
uninvite_participant(conversation_id, participant_speakerUri) ==
    /\ IF ~Has(orchestrator.participants, participant_speakerUri)
       THEN /\ Return("uninvite_participant", conversation_id,
                      participant_speakerUri, FALSE)
            /\ UNCHANGED <<orchestrator, floor_holders, floor_requests,
                           conversation_metadata>>
       ELSE /\ Commit(ConvenerOrchestrator_revoke_floor(
                          Current, conversation_id, participant_speakerUri).st)
            /\ orchestrator' = [orchestrator EXCEPT
                   !.participants = Del(@, participant_speakerUri),
                   !.turn_order = RemoveFirst(@, participant_speakerUri)]
            /\ Return("uninvite_participant", conversation_id,
                      participant_speakerUri, TRUE)
    /\ UNCHANGED <<parsed, found, published, manifests, hub, tasks, walk, now,
                   arrivals, convener, routes, last>>

\* ConvenerOrchestrator.grant_floor_to_next.  The result is the speakerUri
\* returned, None, or "KeyError" when self._participants[next_speakerUri]
\* raises it.
grant_floor_to_next(conversation_id) ==
    /\ orchestrator.current_turn_index < MaxTurns
    /\ arrivals < MaxRequests
    /\ IF orchestrator.participants = <<>> \/ orchestrator.turn_order = <<>>
       THEN /\ Return("grant_floor_to_next", conversation_id, None, None)
            /\ UNCHANGED <<orchestrator, floor_holders, floor_requests,
                           conversation_metadata, arrivals>>
       ELSE LET next_speakerUri ==
                    orchestrator.turn_order[
                        (orchestrator.current_turn_index
                         % Len(orchestrator.turn_order)) + 1]
            IN  /\ orchestrator' = [orchestrator EXCEPT
                                       !.current_turn_index = @ + 1]
                /\ IF ~Has(orchestrator.participants, next_speakerUri)
                   THEN /\ Return("grant_floor_to_next", conversation_id,
                                  None, "KeyError")
                        /\ UNCHANGED <<floor_holders, floor_requests,
                                       conversation_metadata, arrivals>>
                   ELSE /\ arrivals' = arrivals + 1
                        /\ Commit(FloorControl_request_floor(
                                      Current, conversation_id, next_speakerUri,
                                      orchestrator.participants[next_speakerUri],
                                      arrivals + 1).st)
                        /\ Return("grant_floor_to_next", conversation_id,
                                  None, next_speakerUri)
    /\ UNCHANGED <<parsed, found, published, manifests, hub, tasks, walk, now,
                   convener, routes, last>>

NextConvener ==
    \/ \E c \in ConversationIds, s \in TaskSpeakers :
          invite_participant(c, s, 0)
    \/ \E c \in ConversationIds, s \in TaskSpeakers :
          uninvite_participant(c, s)
    \/ \E c \in ConversationIds : grant_floor_to_next(c)
    \/ Tick

SpecConvener == Init /\ [][NextConvener]_vars

\* ------------------------------------------------------ envelope parsing
\* OpenFloorEnvelope.from_dict
from_dict(document) ==
    /\ LET r == OpenFloorEnvelope_from_dict(document)
       IN  parsed' = [op |-> "from_dict", ok |-> r.ok,
                      document |-> document, envelope |-> r.envelope]
    /\ UNCHANGED <<orchestrator, found, published, manifests, hub, tasks, walk,
                   floor_holders, floor_requests, conversation_metadata, now,
                   arrivals, ret, convener, routes, last>>

\* FloorManager.create_envelope
create_envelope(conversation_id, sender_speakerUri, events) ==
    /\ parsed' = [op |-> "create_envelope", ok |-> TRUE,
                  document |-> NoDocument,
                  envelope |-> FloorManager_create_envelope(
                                   conversation_id, sender_speakerUri, events)]
    /\ UNCHANGED <<orchestrator, found, published, manifests, hub, tasks, walk,
                   floor_holders, floor_requests, conversation_metadata, now,
                   arrivals, ret, convener, routes, last>>

\* eventType strings of a document: two of the enumeration and one outside it
DocumentEventTypes == {"utterance", "requestFloor", "speak"}
EventTypeLists ==
    {<<>>} \cup {<<t>> : t \in DocumentEventTypes}
    \cup {<<t, u>> : t \in DocumentEventTypes, u \in DocumentEventTypes}

Documents ==
    [wrapped : BOOLEAN,
     schema : {<<>>, <<"1.0.1">>},
     conversation : {<<>>, <<[id |-> <<>>]>>, <<[id |-> <<"c1">>]>>},
     sender : {<<>>, <<[speakerUri |-> <<>>]>>, <<[speakerUri |-> <<"s:a">>]>>},
     events : {<<>>} \cup {<<l>> : l \in EventTypeLists}]

EventLists ==
    {<<>>} \cup {<<EventObject(<<>>, t, <<>>)>> : t \in {"utterance", "bye"}}

NextParse ==
    \/ \E document \in Documents : from_dict(document)
    \/ \E events \in {<<>>} \cup {<<l>> : l \in EventLists} :
          create_envelope("c1", "s:a", events)

SpecParse == Init /\ [][NextParse]_vars

\* ======================================================= checked statements
\* the queue of a conversation in a requests dictionary; empty when absent
QueueIn(requests, c) == IF Has(requests, c) THEN requests[c] ELSE <<>>

\* a sequence with its k-th element taken out
RemoveAt(q, k) == SubSeq(q, 1, k - 1) \o SubSeq(q, k + 1, Len(q))

\* every speaker recorded as having the floor of c, by either record
HoldersOf(c) ==
    (IF Has(floor_holders, c) THEN {floor_holders[c].speakerUri} ELSE {})
    \cup
    (IF Has(conversation_metadata, c) /\ Has(conversation_metadata[c], "floorGranted")
     THEN Range(conversation_metadata[c]["floorGranted"]) ELSE {})

\* the grant recorded for c is older than the hold time
GrantOlderThanMax(c) ==
    Has(floor_holders, c) /\ now - floor_holders[c].granted_at > FLOOR_MAX_HOLD_TIME

\* a holder stops being the holder only by its own release or by a timeout
HolderOnlyDisplacedByReleaseOrTimeout ==
    \A c \in ConversationIds :
        (Has(floor_holders, c)
         /\ (~Has(floor_holders', c) \/ floor_holders'[c] # floor_holders[c]))
        => \/ /\ ret'.op = "release_floor"
              /\ ret'.conversation_id = c
              /\ ret'.speakerUri = floor_holders[c].speakerUri
              /\ ret'.result = TRUE
           \/ /\ ret'.op = "get_floor_holder"
              /\ ret'.conversation_id = c
              /\ GrantOlderThanMax(c)

\* C1: mutual exclusion. In every reachable state each conversation has at
\* most one speaker recorded as floor holder, and a speaker that holds the
\* floor keeps it until it releases it or is revoked for timeout: no request
\* is granted over a current holder.
C1_MutualExclusion ==
    /\ [](\A c \in ConversationIds : Cardinality(HoldersOf(c)) <= 1)
    /\ [][HolderOnlyDisplacedByReleaseOrTimeout]_vars

\* C1 witness: a request arrived while another speaker held the floor
C1_Witness ==
    \E c \in ConversationIds :
        /\ ret.op = "request_floor" /\ ret.conversation_id = c
        /\ ret.result = FALSE
        /\ Has(floor_holders, c)
        /\ floor_holders[c].speakerUri # ret.speakerUri
        /\ Len(QueueIn(floor_requests, c)) >= 2

\* C2: request_floor on a conversation with no holder makes the requester the
\* holder and returns true; and a get_floor_holder that immediately follows a
\* request_floor that returned true returns the requester.
C2_RequestGrantsIdleFloor ==
    [][/\ \A c \in ConversationIds, s \in SpeakerUris, p \in Priorities :
            (~Has(floor_holders, c) /\ request_floor(c, s, p))
            => /\ ret'.result = TRUE
               /\ Has(floor_holders', c)
               /\ floor_holders'[c].speakerUri = s
       /\ \A c \in ConversationIds :
            (/\ ret.op = "request_floor" /\ ret.conversation_id = c
             /\ ret.result = TRUE
             /\ get_floor_holder(c))
            => ret'.result = ret.speakerUri
      ]_vars

\* C2 witness: a request has just been granted on an idle conversation that
\* was held before
C2_Witness ==
    \E c \in ConversationIds :
        /\ ret.op = "request_floor" /\ ret.conversation_id = c
        /\ ret.result = TRUE
        /\ Has(floor_holders, c)
        /\ floor_holders[c].speakerUri = ret.speakerUri
        /\ arrivals >= 2

C4_ReleasePromotesHead ==
    [][\A c \in ConversationIds, s \in SpeakerUris :
          (release_floor(c, s) /\ ret'.result = TRUE)
          => LET q == QueueIn(floor_requests, c)
             IN  IF q # <<>>
                 THEN /\ Has(floor_holders', c)
                      /\ floor_holders'[c].speakerUri = q[1].speakerUri
                      /\ QueueIn(floor_requests', c) = Tail(q)
                 ELSE /\ ~Has(floor_holders', c)
                      /\ QueueIn(floor_requests', c) = <<>>
      ]_vars

\* C4 witness: a release has promoted the head of a queue of two
C4_Witness ==
    \E c \in ConversationIds :
        /\ ret.op = "release_floor" /\ ret.conversation_id = c
        /\ ret.result = TRUE
        /\ Has(floor_holders, c)
        /\ Len(QueueIn(floor_requests, c)) = 1
        /\ floor_requests[c][1].speakerUri # floor_holders[c].speakerUri

\* C5: release_floor returns false and changes neither holder, queue nor
\* metadata when the conversation has no holder or the holder is another
\* speaker.
C5_ReleaseByNonHolderRefused ==
    [][\A c \in ConversationIds, s \in SpeakerUris :
          ((~Has(floor_holders, c) \/ floor_holders[c].speakerUri # s)
           /\ release_floor(c, s))
          => /\ ret'.result = FALSE
             /\ UNCHANGED <<floor_holders, floor_requests, conversation_metadata>>
      ]_vars

\* C5 witness: a speaker other than the holder has just tried to release
C5_Witness ==
    \E c \in ConversationIds :
        /\ ret.op = "release_floor" /\ ret.conversation_id = c
        /\ ret.result = FALSE
        /\ Has(floor_holders, c)
        /\ floor_holders[c].speakerUri # ret.speakerUri
        /\ QueueIn(floor_requests, c) # <<>>

\* the queue order the specification states: higher priority first, then
\* strictly earlier timestamp
PrecedesByKey(r1, r2) ==
    \/ r1.priority > r2.priority
    \/ r1.priority = r2.priority /\ r1.timestamp < r2.timestamp

\* the same order with equal timestamps settled by arrival
PrecedesByKeyThenArrival(r1, r2) ==
    \/ r1.priority > r2.priority
    \/ /\ r1.priority = r2.priority
       /\ \/ r1.timestamp < r2.timestamp
          \/ r1.timestamp = r2.timestamp /\ r1.seq < r2.seq

\* C6 as stated: for any two requests r1, r2 of a queue, r1 precedes r2 if
\* and only if r1.priority > r2.priority, or the priorities are equal and
\* r1.timestamp < r2.timestamp.
C6_QueueOrderStrict ==
    \A c \in ConversationIds :
        LET q == QueueIn(floor_requests, c)
        IN  \A i, j \in 1..Len(q) :
                i # j => ((i < j) <=> PrecedesByKey(q[i], q[j]))

\* C6 as amended: for any two requests r1, r2 of a queue, r1 precedes r2 if
\* and only if r1.priority > r2.priority, or the priorities are equal and
\* r1.timestamp < r2.timestamp, or priorities and timestamps are equal and r1
\* was requested first.
C6_QueueOrder ==
    \A c \in ConversationIds :
        LET q == QueueIn(floor_requests, c)
        IN  \A i, j \in 1..Len(q) :
                i # j => ((i < j) <=> PrecedesByKeyThenArrival(q[i], q[j]))

\* C6 witness: two requests of one priority made at one clock reading are
\* queued, by different speakers
C6_Witness ==
    \E c \in ConversationIds :
        LET q == QueueIn(floor_requests, c)
        IN  \E i, j \in 1..Len(q) :
                /\ i < j
                /\ q[i].priority = q[j].priority
                /\ q[i].timestamp = q[j].timestamp
                /\ q[i].speakerUri # q[j].speakerUri

C8_HolderQueryReturnsResultingHolder ==
    \A c \in ConversationIds :
        (ret.op = "get_floor_holder" /\ ret.conversation_id = c)
        => ret.result = (IF Has(floor_holders, c)
                         THEN floor_holders[c].speakerUri ELSE None)

\* C9: timeout revocation. A get_floor_holder call on a conversation whose
\* grant is older than the hold time removes that grant: the conversation is
\* left without holder if the queue was empty, and otherwise the head of the
\* queue holds the floor, granted now, and has left the queue.
C9_TimeoutRevokes ==
    [][\A c \in ConversationIds :
          (GrantOlderThanMax(c) /\ get_floor_holder(c))
          => LET q == QueueIn(floor_requests, c)
             IN  IF q = <<>>
                 THEN ~Has(floor_holders', c)
                 ELSE /\ Has(floor_holders', c)
                      /\ floor_holders'[c] = [speakerUri |-> q[1].speakerUri,
                                              granted_at |-> now]
                      /\ floor_holders'[c] # floor_holders[c]
                      /\ QueueIn(floor_requests', c) = Tail(q)
      ]_vars

\* C9 witness: a holder query has just revoked an expired grant and promoted
\* the head of the queue
C9_Witness ==
    \E c \in ConversationIds :
        /\ ret.op = "get_floor_holder" /\ ret.conversation_id = c
        /\ ret.result = None
        /\ Has(floor_holders, c)
        /\ floor_holders[c].granted_at = now
        /\ now > FLOOR_MAX_HOLD_TIME

\* C10 as stated: no observing operation reports a speaker whose grant is
\* older than the hold time: neither the result of get_floor_holder nor the
\* floorGranted of get_conversation_metadata.
C10_NoObservationOfExpiredHolder ==
    \A c \in ConversationIds :
        /\ (ret.op = "get_floor_holder" /\ ret.conversation_id = c
            /\ ret.result # None)
           => ~GrantOlderThanMax(c)
        /\ (ret.op = "get_conversation_metadata" /\ ret.conversation_id = c
            /\ Has(ret.result, "floorGranted"))
           => ~GrantOlderThanMax(c)

\* C11 as stated: the request queue of a conversation never holds more than
\* FLOOR_QUEUE_MAX_SIZE entries (a request_floor that would exceed the cap is
\* refused and leaves the queue as it was).
C11_QueueNeverExceedsCap ==
    \A c \in ConversationIds :
        Len(QueueIn(floor_requests, c)) <= FLOOR_QUEUE_MAX_SIZE

\* what get_conversation_metadata(c) returns in the current state
MetadataOf(c) ==
    IF Has(conversation_metadata, c) THEN conversation_metadata[c]
    ELSE [k \in {"assignedFloorRoles"} |-> EmptyDict]

\* C12: metadata consistency. In every reachable state floorGranted of
\* get_conversation_metadata(C) is the one-element sequence [holder] when C
\* has a holder, and is absent when C has none.
C12_MetadataConsistent ==
    \A c \in ConversationIds :
        IF Has(floor_holders, c)
        THEN /\ Has(MetadataOf(c), "floorGranted")
             /\ MetadataOf(c)["floorGranted"] = <<floor_holders[c].speakerUri>>
        ELSE ~Has(MetadataOf(c), "floorGranted")

\* C12 witness: a release has just promoted a queued speaker, whose name is
\* now the floorGranted of the metadata
C12_Witness ==
    \E c \in ConversationIds :
        /\ ret.op = "release_floor" /\ ret.conversation_id = c
        /\ ret.result = TRUE
        /\ Has(floor_holders, c)
        /\ floor_holders[c].speakerUri # ret.speakerUri
        /\ MetadataOf(c)["floorGranted"] = <<floor_holders[c].speakerUri>>

\* C13: state machine. A conversation is either IDLE (no holder, empty
\* queue) or GRANTED (a holder): in no reachable state is a request queued
\* while there is no holder.
C13_IdleOrGranted ==
    \A c \in ConversationIds :
        ~Has(floor_holders, c) => QueueIn(floor_requests, c) = <<>>

\* C13 witness: a timeout revocation has promoted the head of a queue of two
\* and the other request still waits
C13_Witness ==
    \E c \in ConversationIds :
        /\ ret.op = "get_floor_holder" /\ ret.conversation_id = c
        /\ Has(floor_holders, c)
        /\ floor_holders[c].granted_at = now
        /\ now > FLOOR_MAX_HOLD_TIME
        /\ QueueIn(floor_requests, c) # <<>>

\* the speaker recorded as holder of c in the dictionaries st, None if none
HolderIn(st, c) ==
    IF Has(st.holders, c) THEN st.holders[c].speakerUri ELSE None

\* the event types of an envelope, in array order
TypesOf(envelope) ==
    [i \in DOMAIN envelope.events |-> envelope.events[i].eventType]

\* C14 as stated: floor mutations made by envelopes are visible to
\* observers. A floor query answered after the envelopes processed so far
\* reports the holder that those envelopes left.
C14_EnvelopeMutationsVisibleToQueries ==
    \A c \in ConversationIds :
        (ret.op = "get_floor_holder" /\ ret.conversation_id = c)
        => ret.result = HolderIn(convener, c)

\* C15: pre-routing ordering. process_envelope applies the floor effects of
\* all events in array order and only then routes the envelope: the handlers
\* invoked see the floor state the envelope leaves; a requestFloor followed by
\* a yieldFloor on an idle floor leaves it idle, and the two in the other
\* order leave the sender holding it.
C15_MutationBeforeRouting ==
    last.op = "process_envelope" =>
        /\ last.deliveries # {} => last.observed = convener
        /\ (arrivals = 1 /\ TypesOf(last.envelope) = <<"requestFloor", "yieldFloor">>)
           => HolderIn(convener, last.envelope.conversation_id) = None
        /\ (arrivals = 1 /\ TypesOf(last.envelope) = <<"yieldFloor", "requestFloor">>)
           => HolderIn(convener, last.envelope.conversation_id)
                  = last.envelope.sender

\* C15 witness: an envelope with a yieldFloor and an utterance from the
\* holder, while another speaker waits: the handler invoked for the utterance
\* sees the waiting speaker holding the floor
C15_Witness ==
    /\ last.op = "process_envelope"
    /\ TypesOf(last.envelope) = <<"yieldFloor", "utterance">>
    /\ last.mutated
    /\ \E d \in last.deliveries : d.event = 2 /\ Completes(d.outcome)
    /\ HolderIn(last.observed, last.envelope.conversation_id)
           \in SpeakerUris \ {last.envelope.sender}

\* C16 as stated: process_envelope returns true if and only if a floor state
\* mutation occurred or at least one handler was successfully invoked.
C16_TrueIffVisibleEffect ==
    last.op = "process_envelope" =>
        (last.result <=>
            (last.mutated \/ \E d \in last.deliveries : Completes(d.outcome)))

\* C17: only requestFloor and yieldFloor events change floor state.
\* Processing an envelope whose events are all of other types leaves holder,
\* queue and metadata of every conversation unchanged.
C17_OtherEventsLeaveFloorAlone ==
    [][(/\ last'.op = "process_envelope"
        /\ \A i \in DOMAIN last'.envelope.events :
               last'.envelope.events[i].eventType
                   \notin {"requestFloor", "yieldFloor"})
       => /\ convener' = convener
          /\ UNCHANGED <<floor_holders, floor_requests, conversation_metadata>>]_vars

\* C17 witness: a revokeFloor sent by a speaker who does not hold the floor
\* has been processed and routed while the floor is held and a request
\* waits; it changed nothing
C17_Witness ==
    /\ last.op = "process_envelope"
    /\ TypesOf(last.envelope) = <<"revokeFloor">>
    /\ ~last.mutated
    /\ HolderIn(convener, last.envelope.conversation_id)
           \in SpeakerUris \ {last.envelope.sender}
    /\ QueueIn(convener.requests, last.envelope.conversation_id) # <<>>
    /\ \E d \in last.deliveries : Completes(d.outcome)

\* the speakerUris whose handlers the last call invoked for its i-th event
InvokedFor(i) == {d.speakerUri : d \in {x \in last.deliveries : x.event = i}}

FlipPrivate(envelope, i) ==
    [envelope EXCEPT !.events[i].to[1].private = ~@]

\* C19: for every event type other than utterance, routing an addressed event
\* with to.private = true invokes the same handlers and returns the same
\* result as routing it with to.private = false.
C19_PrivacyFlagIgnoredOffUtterances ==
    last.op = "route_envelope" =>
        \A i \in DOMAIN last.envelope.events :
            LET event == last.envelope.events[i]
                r == EnvelopeRouter_route_envelope(
                         routes, FlipPrivate(last.envelope, i))
            IN  (event.eventType # "utterance" /\ event.to # <<>>)
                => /\ r.deliveries = last.deliveries
                   /\ r.routed = last.result

\* C19 witness: a private invite addressed to s:b has been handed to the
\* handler of s:b, while a handler for s:c is registered and was left alone
C19_Witness ==
    /\ last.op = "route_envelope"
    /\ last.envelope.events =
           <<EventObject(<<ToObject("s:b", TRUE)>>, "invite", <<>>)>>
    /\ {"s:b", "s:c"} \subseteq DOMAIN routes
    /\ InvokedFor(1) = {"s:b"}
    /\ last.result = TRUE

\* C20: broadcast. An event without a to block is delivered to every handler
\* registered when the envelope is routed except the one registered under
\* envelope.sender.speakerUri, which is not invoked for that event.
C20_Broadcast ==
    last.op = "route_envelope" =>
        \A i \in DOMAIN last.envelope.events :
            last.envelope.events[i].to = <<>>
            => InvokedFor(i) = (DOMAIN routes) \ {last.envelope.sender}

\* C20 witness: the sender and two others are registered, one of the others
\* with a handler that raises; both others were invoked, the sender was not
C20_Witness ==
    /\ last.op = "route_envelope"
    /\ Len(last.envelope.events) = 1
    /\ last.envelope.events[1].to = <<>>
    /\ DOMAIN routes = SpeakerUris
    /\ last.envelope.sender \in DOMAIN routes
    /\ \E d \in last.deliveries : ~Completes(d.outcome)
    /\ InvokedFor(1) = SpeakerUris \ {last.envelope.sender}
    /\ last.result = TRUE

\* C21: route_envelope returns true if and only if at least one handler
\* invocation completed without raising or timing out during the call; it
\* returns false when nothing was invoked or every invoked handler failed.
C21_RoutedIffSomeHandlerCompleted ==
    last.op = "route_envelope" =>
        (last.result <=> \E d \in last.deliveries : d.outcome = "h_ok")

\* C21 witness: a broadcast has invoked two handlers, one raised and the
\* other timed out, and the call returned false
C21_Witness ==
    /\ last.op = "route_envelope"
    /\ Len(last.envelope.events) = 1
    /\ last.envelope.events[1].to = <<>>
    /\ {d.outcome : d \in last.deliveries} = {"h_raise", "h_timeout"}
    /\ last.result = FALSE

\* C22: delivery failures are isolated. A handler that raises or times out,
\* or an addressed target that is not registered, prevents neither the
\* delivery to the other recipients of a broadcast nor the routing of the
\* later events of the envelope, and route_envelope does not raise.
C22_FailuresIsolated ==
    last.op = "route_envelope" =>
        /\ ~last.raised
        /\ \A i \in DOMAIN last.envelope.events :
               LET event == last.envelope.events[i]
               IN  IF event.to = <<>>
                   THEN (DOMAIN routes) \ {last.envelope.sender}
                            \subseteq InvokedFor(i)
                   ELSE event.to[1].speakerUri \in DOMAIN routes
                            => event.to[1].speakerUri \in InvokedFor(i)

\* C22 witness: the first event is addressed to a speaker whose handler
\* raises; the second is a broadcast that still reaches that speaker and one
\* more, whose handler completes
C22_Witness ==
    /\ last.op = "route_envelope"
    /\ Len(last.envelope.events) = 2
    /\ last.envelope.events[1].to # <<>>
    /\ \E d \in last.deliveries : d.event = 1 /\ d.outcome = "h_raise"
    /\ last.envelope.events[2].to = <<>>
    /\ \E d \in last.deliveries : d.event = 2 /\ d.outcome = "h_raise"
    /\ \E d \in last.deliveries : d.event = 2 /\ d.outcome = "h_ok"
    /\ ~last.raised

\* an unregister_route of a speakerUri that is not registered changes nothing
UnregisterOfUnregisteredIsNoOp ==
    (last'.op = "unregister_route" /\ last'.previous = None)
    => routes' = routes

\* C23: registration is last-write-wins and unregistration is idempotent.
\* After register_route(S, h) the handler of S is h whatever was registered
\* before; after unregister_route(S) S has no handler; events for S go to the
\* handler registered last and to no other; unregister_route of an
\* unregistered S changes nothing and does not fail.
C23_LastWriteWins ==
    /\ [](/\ last.op = "register_route"
             => HandlerOf(routes, last.speakerUri) = last.handler
          /\ last.op = "unregister_route"
             => /\ HandlerOf(routes, last.speakerUri) = None
                /\ ~last.raised
          /\ last.op = "route_envelope"
             => \A d \in last.deliveries :
                    d.outcome = HandlerOf(routes, d.speakerUri))
    /\ [][UnregisterOfUnregisteredIsNoOp]_vars

\* C23 witness: a handler has been registered under a speakerUri that had a
\* different handler
C23_Witness ==
    /\ last.op = "register_route"
    /\ last.previous \in Handlers \ {last.handler}
    /\ routes[last.speakerUri] = last.handler

\* C24 as stated: routing-table writes are safe under concurrent routes. A
\* register_route or unregister_route that runs while route_envelope is
\* suspended in a handler during a broadcast does not abort the broadcast:
\* no broadcast ends in an error.
C24_TableWritesDoNotAbortBroadcast ==
    walk.status # "raised"

\* a FloorControl call made on the dictionaries st as the n-th request: the
\* dictionaries it leaves and the value it returns
ApplyCall(st, call, n) ==
    IF call.op = "request_floor"
    THEN FloorControl_request_floor(st, call.conversation_id, call.speakerUri,
                                    call.priority, n)
    ELSE IF call.op = "release_floor"
    THEN FloorControl_release_floor(st, call.conversation_id, call.speakerUri)
    ELSE FloorControl_get_floor_holder(st, call.conversation_id)

\* the calls of the tasks made one after another in the given order, from
\* the k-th of the order on
RECURSIVE RunInOrder(_, _, _, _, _)
RunInOrder(order, k, st, n, results) ==
    IF k > Len(order) THEN [st |-> st, results |-> results]
    ELSE LET i == order[k]
             isRequest == tasks[i].call.op = "request_floor"
             r == ApplyCall(st, tasks[i].call, n + 1)
         IN  RunInOrder(order, k + 1, r.st,
                        IF isRequest THEN n + 1 ELSE n,
                        (i :> r.result) @@ results)

\* the orders in which the tasks can be taken
Orders ==
    {order \in [DOMAIN tasks -> DOMAIN tasks] :
        \A i, j \in DOMAIN tasks : order[i] = order[j] => i = j}

AllTasksDone == tasks # <<>> /\ \A i \in DOMAIN tasks : tasks[i].pc = "done"

\* C25: single-writer behaviour under concurrency. Once concurrently started
\* request_floor, release_floor and get_floor_holder tasks have all run,
\* the state and the results equal those of the calls made in some sequential
\* order; two concurrent request_floor calls on an idle conversation give
\* exactly one true result, one holder and one queued request.
C25_TasksSerializable ==
    AllTasksDone =>
        /\ \E order \in Orders :
              LET r == RunInOrder(order, 1, FloorState(<<>>, <<>>, <<>>), 0, <<>>)
              IN  /\ r.st = Current
                  /\ \A i \in DOMAIN tasks : r.results[i] = tasks[i].result
        /\ (/\ Len(tasks) = 2
            /\ \A i \in DOMAIN tasks : tasks[i].call.op = "request_floor")
           => /\ Cardinality({i \in DOMAIN tasks : tasks[i].result = TRUE}) = 1
              /\ \A c \in ConversationIds :
                    /\ Has(floor_holders, c)
                    /\ Len(QueueIn(floor_requests, c)) = 1

\* C25 witness: two request_floor tasks were started on an idle conversation
\* and the event loop ran the second first; the second holds the floor and
\* the first waits
C25_Witness ==
    /\ AllTasksDone
    /\ Len(tasks) = 2
    /\ tasks[1].call.op = "request_floor" /\ tasks[2].call.op = "request_floor"
    /\ tasks[1].call.speakerUri # tasks[2].call.speakerUri
    /\ tasks[1].result = FALSE /\ tasks[2].result = TRUE
    /\ \E c \in ConversationIds :
          /\ HolderIn(Current, c) = tasks[2].call.speakerUri
          /\ Len(QueueIn(floor_requests, c)) = 1
          /\ QueueIn(floor_requests, c)[1].speakerUri = tasks[1].call.speakerUri

\* what the dictionaries h, q and m hold for conversation c
ConversationState(h, q, m, c) ==
    [holder |-> IF Has(h, c) THEN <<h[c]>> ELSE <<>>,
     queue |-> QueueIn(q, c),
     metadata |-> IF Has(m, c) THEN <<m[c]>> ELSE <<>>]

\* a step in which a call on c1 returns leaves every other conversation as
\* it was
CallLeavesOtherConversationsAlone ==
    \A c1, c2 \in TwoConversations :
        (c1 # c2 /\ ret'.op # "none" /\ ret'.conversation_id = c1)
        => ConversationState(floor_holders', floor_requests',
                             conversation_metadata', c2)
           = ConversationState(floor_holders, floor_requests,
                               conversation_metadata, c2)

\* C26: conversation independence. Any FloorControl operation on conversation
\* C1 leaves the holder, queue and metadata of every other conversation C2
\* unchanged.
C26_ConversationIndependence ==
    [][CallLeavesOtherConversationsAlone]_vars

\* C26 witness: the holder of c1 has released the floor to a waiting speaker
\* while c2 has a holder of its own
C26_Witness ==
    /\ ret.op = "release_floor" /\ ret.conversation_id = "c1"
    /\ ret.result = TRUE
    /\ Has(floor_holders, "c1")
    /\ Has(floor_holders, "c2")
    /\ Has(conversation_metadata, "c2")

\* ---------------------------------------------------- real-time updates
\* the subscribers of the hub: every WebSocket that is connected and every
\* SSE stream that is open, each with the messages made available to it
\* (a stream reads its queue without delay)
Subscribers ==
    {[conversation_id |-> hub.sockets[w].conversation_id,
      since |-> hub.sockets[w].since,
      got |-> hub.sockets[w].received] : w \in hub.active_websockets}
    \cup
    {[conversation_id |-> hub.streams[g].conversation_id,
      since |-> hub.streams[g].since,
      got |-> hub.streams[g].received \o hub.streams[g].queue] :
        g \in {x \in DOMAIN hub.streams : hub.streams[x].open}}

\* the floor updates among the messages got, in order
UpdatesOf(got) == SelectSeq(got, LAMBDA m : m.type = "floor_update")

\* C27: every floor state change (a grant, a release, a timeout revocation,
\* a promotion of the queue head) publishes a transition record to the
\* subscribers of the conversation.  As a state predicate: a subscriber whose
\* initial status named one holder, while the conversation now has another,
\* has got a floor update of that conversation.
C27_FloorChangePublished ==
    \A sub \in Subscribers :
        HolderIn(Current, sub.conversation_id) # sub.got[1].holder
        => \E k \in DOMAIN sub.got :
              /\ sub.got[k].type = "floor_update"
              /\ sub.got[k].conversation_id = sub.conversation_id

\* C28: two subscribers of the same conversation that do not lag get every
\* update broadcast for that conversation, in the same order: the updates of
\* the conversation broadcast since both were subscribed are the same
\* sequence at both.
C28_FanOutIdentical ==
    \A a \in Subscribers, b \in Subscribers :
        a.conversation_id = b.conversation_id
        => LET Both(m) == /\ m.conversation_id = a.conversation_id
                          /\ m.n > a.since /\ m.n > b.since
           IN  SelectSeq(UpdatesOf(a.got), Both)
               = SelectSeq(UpdatesOf(b.got), Both)

\* C29: a subscriber of conversation C gets only floor updates whose
\* conversation_id is C.
C29_SubscriptionScoped ==
    \A sub \in Subscribers :
        \A k \in DOMAIN sub.got :
            sub.got[k].conversation_id = sub.conversation_id

\* ------------------------------------------------------- agent directory
\* the positions in published of the stores under speaker_uri that no
\* delete of it has followed
LiveStores(speaker_uri) ==
    {k \in DOMAIN published :
        /\ published[k].op = "store"
        /\ published[k].speaker_uri = speaker_uri
        /\ \A j \in DOMAIN published :
              (j > k /\ published[j].speaker_uri = speaker_uri)
              => published[j].op = "store"}

\* C30: after any sequence of store and delete there is at most one record
\* per speakerUri, each under its own key; a speakerUri has a record exactly
\* when a store of it has not been followed by a delete, and then the
\* record's published_at is the time of the first of the stores made since
\* the last delete, its updated_at the time of the last of them, and its data
\* that of the last of them.
C30_DirectoryUpsert ==
    /\ \A s \in DOMAIN manifests : manifests[s].speaker_uri = s
    /\ \A s \in DirectorySpeakers :
          LET live == LiveStores(s)
              first == CHOOSE k \in live : \A j \in live : k <= j
              second == CHOOSE k \in live : \A j \in live : k >= j
          IN  IF live = {} THEN ~Has(manifests, s)
              ELSE /\ Has(manifests, s)
                   /\ manifests[s].published_at = published[first].time
                   /\ manifests[s].updated_at = published[second].time
                   /\ manifests[s].service_url = published[second].data.serviceUrl

\* two publishes under one speakerUri at different times with different
\* data, and no delete between them
C30_Witness ==
    \E s \in DOMAIN manifests :
        /\ Cardinality(LiveStores(s)) = 2
        /\ manifests[s].published_at < manifests[s].updated_at
        /\ \E k \in LiveStores(s) :
              published[k].data.serviceUrl # manifests[s].service_url

\* ---------------------------------------------------- release of a stream
\* stream g is open and its queue is the one active_sse_queues holds for its
\* conversation in the hub h
Registered(h, g) ==
    /\ Has(h.streams, g)
    /\ h.streams[g].open
    /\ Has(h.active_sse_queues, h.streams[g].conversation_id)
    /\ h.active_sse_queues[h.streams[g].conversation_id] = g

\* a step in which the cleanup of stream g runs
Released(g) ==
    /\ Has(hub.streams, g)
    /\ hub.streams[g].open
    /\ ~hub'.streams[g].open

\* C38: when the cleanup of one SSE stream runs, every other stream that is
\* open with its queue registered keeps its queue registered, and so goes on
\* receiving the updates of its conversation.
ReleaseLeavesOthersRegistered ==
    \A g \in Streams :
        Released(g)
        => \A other \in Streams \ {g} :
              Registered(hub, other) => Registered(hub', other)

C38_ReleaseAffectsOnlyReleased == [][ReleaseLeavesOthersRegistered]_vars

\* ---------------------------------------------------------- manifest ids
\* C39: after any sequence of store and delete the ids of the stored
\* manifests are pairwise distinct.
C39_ManifestIdsDistinct ==
    \A s \in DOMAIN manifests, t \in DOMAIN manifests :
        manifests[s].id = manifests[t].id => s = t

\* ------------------------------------------------------- directory search
\* the stored manifests
Stored == {manifests[k] : k \in DOMAIN manifests}

\* C31: a search with a non-empty capability filter F and no other filter
\* returns a stored manifest M if and only if F is a subset of
\* M.capabilities and M.status is active.
C31_SupersetMatch ==
    (found.op = "search" /\ found.filters # <<>>)
    => LET f == found.filters[1]
       IN  (/\ f.capabilities # <<>>
            /\ f.organization = None /\ f.role = None
            /\ f.speaker_uri = None
            /\ f.status \in {None, "active"})
           => \A M \in Stored :
                 M \in found.results
                 <=> (/\ \A c \in SetOf(f.capabilities) :
                            \E i \in DOMAIN M.capabilities :
                                M.capabilities[i] = c
                      /\ M.status = "active")

\* a search for two capabilities that returns one active manifest and leaves
\* out another active one that has only one of the two
C31_Witness ==
    /\ found.op = "search" /\ found.filters # <<>>
    /\ found.filters[1] = [capabilities |-> <<"text", "translation">>,
                           organization |-> None, role |-> None,
                           speaker_uri |-> None, status |-> "active"]
    /\ found.results # {}
    /\ \E M \in Stored \ found.results :
          M.status = "active" /\ M.capabilities = <<"text">>

\* the stored manifests that match every filter of f for which Given holds,
\* and have the status of f, or are active when f has none
Matching(f, Given(_)) ==
    {M \in Stored :
        /\ IF f.status # None THEN M.status = f.status
                              ELSE M.status = "active"
        /\ Given(f.organization) => M.organization = f.organization
        /\ Given(f.role) => M.role = f.role
        /\ Given(f.speaker_uri) => M.speaker_uri = f.speaker_uri
        /\ \A c \in SetOf(f.capabilities) :
              \E i \in DOMAIN M.capabilities : M.capabilities[i] = c}

\* C32 as stated: search returns exactly the stored manifests that match
\* every supplied filter and have status active or, when a status filter is
\* supplied, that status; a filter is supplied when it is not None.
C32_FiltersConjunctive_AsStated ==
    (found.op = "search" /\ found.filters # <<>>)
    => found.results = Matching(found.filters[1], LAMBDA x : x # None)

\* C32, amended: the same, where a filter is supplied when it is neither None
\* nor the empty string; a search without a ManifestFilters returns the
\* active manifests.
C32_FiltersConjunctive ==
    /\ (found.op = "search" /\ found.filters # <<>>)
       => found.results
          = Matching(found.filters[1], LAMBDA x : x # None /\ x # "")
    /\ (found.op = "search" /\ found.filters = <<>>)
       => found.results = {M \in Stored : M.status = "active"}

\* a search with an empty organization, a role and a status that returns
\* one deprecated manifest and leaves out an active one
C32_Witness ==
    /\ found.op = "search" /\ found.filters # <<>>
    /\ found.filters[1].organization = ""
    /\ found.filters[1].role = "r1"
    /\ found.filters[1].status = "deprecated"
    /\ found.results # {}
    /\ Stored \ found.results # {}

\* ------------------------------------------------------ envelope parsing
\* C33: from_dict fails when a required field (schema, conversation.id,
\* sender.speakerUri, events) is missing, when events is empty, or when an
\* eventType is outside the closed set; and every envelope from_dict accepts
\* or create_envelope returns has at least one event.
C33_MalformedEnvelopeRejected ==
    /\ parsed.op = "from_dict"
       => LET d == parsed.document
          IN  (\/ d.schema = <<>>
               \/ d.conversation = <<>> \/ d.conversation[1].id = <<>>
               \/ d.sender = <<>> \/ d.sender[1].speakerUri = <<>>
               \/ d.events = <<>> \/ d.events[1] = <<>>
               \/ \E i \in DOMAIN d.events[1] : d.events[1][i] \notin EventTypes)
              => ~parsed.ok
    /\ (parsed.op \in {"from_dict", "create_envelope"} /\ parsed.ok)
       => Len(parsed.envelope.events) >= 1

\* ------------------------------------------------------ the holder query
\* C34: in every response of the holder query has_floor is true exactly when
\* holder is not None, floorGranted is [holder] when has_floor is true, and
\* floorGranted is empty or absent when has_floor is false.
C34_HolderQueryConsistent ==
    ret.op = "api_get_floor_holder"
    => /\ ret.result.has_floor <=> ret.result.holder # None
       /\ ret.result.has_floor
          => ret.result.floorGranted = <<ret.result.holder>>
       /\ ~ret.result.has_floor => ret.result.floorGranted = <<>>

\* ---------------------------------------------------- request conservation
\* the requests of the queue of c in a requests dictionary, as a set; the seq
\* of a request is the number of the request_floor call that made it
Waiting(requests, c) ==
    {QueueIn(requests, c)[i] : i \in DOMAIN QueueIn(requests, c)}

\* a step accounts for every request of conversation c: the request_floor
\* call it makes, if any, becomes the holder's grant or one new entry of the
\* queue; an entry leaves the queue only by becoming the holder's grant, one
\* at a time, when the holder before has released or been revoked; a new
\* grant comes from the call or from the entry that left, and from nowhere
\* else; no entry is in the queue twice.
StepConserves(c) ==
    LET before == Waiting(floor_requests, c)
        after == Waiting(floor_requests', c)
        left == before \ after
        joined == after \ before
        called == arrivals' = arrivals + 1 /\ ret'.conversation_id = c
        regranted == /\ Has(floor_holders', c)
                     /\ \/ ~Has(floor_holders, c)
                        \/ floor_holders'[c] # floor_holders[c]
    IN  /\ Cardinality(after) = Len(QueueIn(floor_requests', c))
        /\ Cardinality(left) <= 1
        /\ \A r \in left :
              /\ Has(floor_holders', c)
              /\ floor_holders'[c].speakerUri = r.speakerUri
              /\ ret'.op \in {"release_floor", "get_floor_holder"}
        /\ IF called
           THEN \/ /\ ~Has(floor_holders, c)
                   /\ HolderIn(FloorState(floor_holders', floor_requests',
                                           conversation_metadata'), c)
                      = ret'.speakerUri
                   /\ joined = {} /\ left = {}
                \/ /\ Has(floor_holders, c)
                   /\ floor_holders'[c] = floor_holders[c]
                   /\ left = {}
                   /\ \E r \in joined :
                         /\ joined = {r}
                         /\ r.seq = arrivals'
                         /\ r.speakerUri = ret'.speakerUri
           ELSE /\ joined = {}
                /\ regranted => left # {}

\* C35: after any sequence of request_floor, release_floor and
\* get_floor_holder calls every request_floor call is accounted for exactly
\* once: it is the holder's grant, a grant since released or revoked, or an
\* entry of the queue; none is lost and none is granted twice.
C35_RequestConservation ==
    [][\A c \in ConversationIds : StepConserves(c)]_vars

\* a queued request has just been promoted while another still waits
C35_Witness ==
    /\ ret.op = "release_floor" /\ ret.result = TRUE
    /\ Has(floor_holders, "c1")
    /\ floor_holders["c1"].speakerUri # ret.speakerUri
    /\ Has(floor_requests, "c1")
    /\ arrivals = 3

\* ------------------------------------------------------- the hold timer
\* a step in which the head of the queue of c is promoted
Promoted(c) == Waiting(floor_requests, c) \ Waiting(floor_requests', c) # {}

\* C37: a speaker promoted from the queue gets granted_at set to the time of
\* the promotion, not to the time of its request; one get_floor_holder call
\* revokes at most one holder; and a holder is revoked for timeout only when
\* more than max_hold_time has passed since its own grant.
PromotionRestartsTimer ==
    \A c \in ConversationIds :
        /\ Promoted(c) => floor_holders'[c].granted_at = now
        /\ (ret'.op = "get_floor_holder" /\ ret' # ret)
           => /\ Len(QueueIn(floor_requests', c))
                 >= Len(QueueIn(floor_requests, c)) - 1
              /\ (Has(floor_holders, c)
                  /\ (~Has(floor_holders', c)
                      \/ floor_holders'[c] # floor_holders[c]))
                 => now - floor_holders[c].granted_at > FLOOR_MAX_HOLD_TIME

C37_HoldTimerRestarts == [][PromotionRestartsTimer]_vars

\* a timeout revocation has just promoted a speaker whose request is older
\* than its grant, and another request still waits
C37_Witness ==
    /\ ret.op = "get_floor_holder"
    /\ Has(floor_holders, "c1")
    /\ floor_holders["c1"].granted_at = now
    /\ now >= 2
    /\ Has(floor_requests, "c1")

\* ------------------------------------------------ the queue drains
\* the n-th request_floor call is waiting in the queue of c
QueuedAs(c, n) == \E r \in Waiting(floor_requests, c) : r.seq = n

\* conversation c is idle: nobody holds its floor and nobody waits for it
Idle(c) == ~Has(floor_holders, c) /\ QueueIn(floor_requests, c) = <<>>

\* C36: when finitely many requests arrive and every holder eventually
\* releases the floor, or exceeds max_hold_time with get_floor_holder called,
\* every queued request eventually leaves the queue, which it does only by
\* being granted the floor, and the conversation eventually is idle for good.
\* (That a request which waits eventually does not is []<> of its not
\* waiting.)
C36_QueueLiveness ==
    \A c \in ConversationIds :
        /\ \A n \in 1..MaxRequests : []<>~QueuedAs(c, n)
        /\ <>[]Idle(c)

\* two requests wait behind a holder
C36_Witness ==
    /\ Has(floor_holders, "c1")
    /\ Len(QueueIn(floor_requests, "c1")) >= 2

\* ------------------------------------------------- convener orchestrator
\* C40: whenever grant_floor_to_next(C) returns a speaker S, S is an invited
\* participant and S holds the floor of C; and the call does not fail.
C40_GrantedIsInvitedHolder ==
    ret.op = "grant_floor_to_next"
    => /\ ret.result # "KeyError"
       /\ ret.result # None
          => /\ Has(orchestrator.participants, ret.result)
             /\ HolderIn(Current, ret.conversation_id) = ret.result

====
